---- MODULE Spec2Model ----
(***************************************************************************)
(* A small-step (control / continuation / heap) model of the tree-walking  *)
(* Lox evaluator of src/lox: ast.py (node evaluation rules), runtime.py    *)
(* (LoxFunction.call, LoxReturn, primitive operations) and transformer.py  *)
(* (syntax-tree construction, `for` desugaring).                           *)
(*                                                                         *)
(* Text (names, string values, rendered output) is a sequence of           *)
(* one-character strings, so that name[0], str.isdigit(), int(str) and     *)
(* str(number) are computed rather than assumed.                           *)
(* A Python float is a dyadic rational n/d (d a power of two, reduced).    *)
(***************************************************************************)
EXTENDS Integers, Sequences, FiniteSets, TLC

\* ------------------------------------------------------------------ bounds
\* largest number of reassignments of a captured variable before the call
MaxReassign == 2
\* largest loop limit N of the generated `for (...; i < N; ...)` programs
MaxLoop == 3
\* largest number of parameters / arguments of the generated calls
MaxArgs == 2

\* the largest operand of the arithmetic programs
MaxNum == 6

\* ------------------------------------------------------------------- text
Digits == <<"0", "1", "2", "3", "4", "5", "6", "7", "8", "9">>

IsDigitChar(c) == \E i \in 1..10 : Digits[i] = c

DigitVal(c) == (CHOOSE i \in 1..10 : Digits[i] = c) - 1

\* str.isdigit(): non-empty and every character a digit
IsDigit(s) == Len(s) > 0 /\ \A i \in 1..Len(s) : IsDigitChar(s[i])

RECURSIVE ParseNat(_)
\* int(s) for a digit-only string
ParseNat(s) ==
  IF Len(s) = 0 THEN 0
  ELSE 10 * ParseNat(SubSeq(s, 1, Len(s) - 1)) + DigitVal(s[Len(s)])

RECURSIVE NatToStr(_)
NatToStr(n) ==
  IF n < 10 THEN <<Digits[n + 1]>>
  ELSE NatToStr(n \div 10) \o <<Digits[(n % 10) + 1]>>

\* str(n) for a Python int
IntToStr(n) == IF n < 0 THEN <<"-">> \o NatToStr(0 - n) ELSE NatToStr(n)

Abs(n) == IF n < 0 THEN 0 - n ELSE n

RECURSIVE FracDigits(_, _)
\* the decimal digits of rem/d (0 <= rem < d, d a power of two)
FracDigits(rem, d) ==
  IF rem = 0 THEN <<>>
  ELSE <<Digits[((rem * 10) \div d) + 1]>> \o FracDigits((rem * 10) % d, d)

\* str(x) for a Python float x = n/d
FloatToStr(n, d) ==
  (IF n < 0 THEN <<"-">> ELSE <<>>)
  \o NatToStr(Abs(n) \div d) \o <<".">>
  \o (IF Abs(n) % d = 0 THEN <<"0">> ELSE FracDigits(Abs(n) % d, d))

\* ----------------------------------------------------------------- values
\* Value = bool | str | float | None  (ast.py:10), plus the int objects that
\* auto_convert and BinOp produce and the LoxFunction objects (by reference).
Nil == [t |-> "nil", n |-> 0, d |-> 1, s |-> <<>>]
BoolV(b) == [t |-> "bool", n |-> IF b THEN 1 ELSE 0, d |-> 1, s |-> <<>>]
IntV(i) == [t |-> "int", n |-> i, d |-> 1, s |-> <<>>]
StrV(s) == [t |-> "str", n |-> 0, d |-> 1, s |-> s]
FunV(id) == [t |-> "fun", n |-> id, d |-> 1, s |-> <<>>]

RECURSIVE FloatV(_, _)
\* the float n/d in lowest terms
FloatV(n, d) ==
  IF d > 1 /\ n % 2 = 0 THEN FloatV(n \div 2, d \div 2)
  ELSE [t |-> "float", n |-> n, d |-> d, s |-> <<>>]

IsNumber(v) == v.t \in {"int", "float", "bool"}

\* float.is_integer()
IsIntegerFloat(v) == v.t = "float" /\ v.d = 1

\* int(x) for a float x: truncation towards zero
IntOfFloat(v) == IF v.n < 0 THEN 0 - (Abs(v.n) \div v.d) ELSE v.n \div v.d

\* name and name[0] in "ijklmn"
is_implicit_int(name) ==
  Len(name) > 0 /\ name[1] \in {"i", "j", "k", "l", "m", "n"}

\* the mutant of auto_convert that forgets the boolean case
auto_convert_no_bool(name, value) ==
  IF is_implicit_int(name)
  THEN IF value.t = "str" /\ IsDigit(value.s) THEN IntV(ParseNat(value.s))
       ELSE IF value.t = "float" THEN IntV(IntOfFloat(value))
       ELSE value
  ELSE value

auto_convert(name, value) ==
  IF is_implicit_int(name)
  THEN IF value.t = "str" /\ IsDigit(value.s) THEN IntV(ParseNat(value.s))
       ELSE IF value.t = "float" THEN IntV(IntOfFloat(value))
       ELSE IF value.t = "bool" THEN IntV(value.n)
       ELSE value
  ELSE value

is_truthy(value) ==
  IF value.t = "nil" THEN FALSE
  ELSE IF value.t = "bool" THEN value.n = 1
  ELSE TRUE

\* the text of a function object (dataclass repr), kept abstract
FunRepr == <<"<", "f", "n", ">">>

\* str(value) of the host language
PyStr(value) ==
  CASE value.t = "nil" -> <<"N", "o", "n", "e">>
    [] value.t = "bool" ->
         IF value.n = 1 THEN <<"T", "r", "u", "e">>
         ELSE <<"F", "a", "l", "s", "e">>
    [] value.t = "int" -> IntToStr(value.n)
    [] value.t = "float" -> FloatToStr(value.n, value.d)
    [] value.t = "str" -> value.s
    [] OTHER -> FunRepr

\* the mutant of lox_str without the is_integer branch
lox_str_plain(value) ==
  IF value.t = "nil" THEN <<"n", "i", "l">>
  ELSE IF value.t = "bool"
  THEN IF value.n = 1 THEN <<"t", "r", "u", "e">>
       ELSE <<"f", "a", "l", "s", "e">>
  ELSE PyStr(value)

lox_str(value) ==
  IF value.t = "nil" THEN <<"n", "i", "l">>
  ELSE IF value.t = "bool"
  THEN IF value.n = 1 THEN <<"t", "r", "u", "e">>
       ELSE <<"f", "a", "l", "s", "e">>
  ELSE IF value.t = "float" /\ IsIntegerFloat(value)
  THEN IntToStr(IntOfFloat(value))
  ELSE PyStr(value)

\* -------------------------------------------------------------- exceptions
\* a host exception: its class, the kind of message, and what it carries
MkExc(type, msg, name, val, expected, got) ==
  [type |-> type, msg |-> msg, name |-> name, val |-> val,
   expected |-> expected, got |-> got]

NoExc == MkExc("", "", <<>>, Nil, 0, 0)

\* raise LoxReturn(value)
LoxReturn(value) == MkExc("LoxReturn", "", <<>>, value, 0, 0)

\* NameError(f"variável {name} não existe!")
NameError(name) == MkExc("NameError", "variavel nao existe", name, Nil, 0, 0)

\* TypeError(f"Expected {expected} arguments but got {got}.")
ArityError(expected, got) ==
  MkExc("TypeError", "Expected arguments but got", <<>>, Nil, expected, got)

\* TypeError(f"{self.obj} não é uma função!")
NotCallable == MkExc("TypeError", "nao e uma funcao", <<>>, Nil, 0, 0)

\* TypeError raised by an operator of the host on operands it does not take
OperandError == MkExc("TypeError", "unsupported operand", <<>>, Nil, 0, 0)

ZeroDivisionError == MkExc("ZeroDivisionError", "division by zero", <<>>, Nil, 0, 0)

\* AttributeError raised by setattr on a value without attribute storage
AttributeError(name) == MkExc("AttributeError", "no attribute", name, Nil, 0, 0)

\* ---------------------------------------------------- primitive operations
Ok(v) == [ok |-> TRUE, val |-> v, exc |-> NoExc]
Err(e) == [ok |-> FALSE, val |-> Nil, exc |-> e]

\* the characters of the model, in code-point order
Alphabet ==
  <<" ", "-", ".", "0", "1", "2", "3", "4", "5", "6", "7", "8", "9", "<", ">",
    "A", "B", "C", "D", "E", "F", "G", "H", "I", "J", "K", "L", "M", "N", "O",
    "P", "Q", "R", "S", "T", "U", "V", "W", "X", "Y", "Z",
    "a", "b", "c", "d", "e", "f", "g", "h", "i", "j", "k", "l", "m", "n", "o",
    "p", "q", "r", "s", "t", "u", "v", "w", "x", "y", "z">>

CharOrd(c) == CHOOSE i \in 1..Len(Alphabet) : Alphabet[i] = c

RECURSIVE StrLess(_, _)
\* a < b for two strings
StrLess(a, b) ==
  IF Len(b) = 0 THEN FALSE
  ELSE IF Len(a) = 0 THEN TRUE
  ELSE IF a[1] = b[1] THEN StrLess(Tail(a), Tail(b))
  ELSE CharOrd(a[1]) < CharOrd(b[1])

RECURSIVE Repeat(_, _)
\* s * k for a string s
Repeat(s, k) == IF k <= 0 THEN <<>> ELSE s \o Repeat(s, k - 1)

\* floor(x / y), y # 0
FloorDiv(x, y) == IF y < 0 THEN (0 - x) \div (0 - y) ELSE x \div y

BothExact(a, b) == a.t # "float" /\ b.t # "float"

NumLess(a, b) == a.n * b.d < b.n * a.d

NumEq(a, b) == a.n * b.d = b.n * a.d

\* a == b of the host
PyEq(a, b) ==
  IF IsNumber(a) /\ IsNumber(b) THEN NumEq(a, b)
  ELSE IF a.t = "str" /\ b.t = "str" THEN a.s = b.s
  ELSE IF a.t = "nil" /\ b.t = "nil" THEN TRUE
  ELSE IF a.t = "fun" /\ b.t = "fun" THEN a.n = b.n
  ELSE FALSE

\* operator.add / sub / mul / lt / gt / le / ge / eq / ne and runtime.floordiv
PrimOp(op, a, b) ==
  CASE op = "add" ->
         IF IsNumber(a) /\ IsNumber(b)
         THEN IF BothExact(a, b) THEN Ok(IntV(a.n + b.n))
              ELSE Ok(FloatV(a.n * b.d + b.n * a.d, a.d * b.d))
         ELSE IF a.t = "str" /\ b.t = "str" THEN Ok(StrV(a.s \o b.s))
         ELSE Err(OperandError)
    [] op = "sub" ->
         IF IsNumber(a) /\ IsNumber(b)
         THEN IF BothExact(a, b) THEN Ok(IntV(a.n - b.n))
              ELSE Ok(FloatV(a.n * b.d - b.n * a.d, a.d * b.d))
         ELSE Err(OperandError)
    [] op = "mul" ->
         IF IsNumber(a) /\ IsNumber(b)
         THEN IF BothExact(a, b) THEN Ok(IntV(a.n * b.n))
              ELSE Ok(FloatV(a.n * b.n, a.d * b.d))
         ELSE IF a.t = "str" /\ b.t \in {"int", "bool"}
         THEN Ok(StrV(Repeat(a.s, b.n)))
         ELSE IF b.t = "str" /\ a.t \in {"int", "bool"}
         THEN Ok(StrV(Repeat(b.s, a.n)))
         ELSE Err(OperandError)
    [] op = "floordiv" ->
         IF IsNumber(a) /\ IsNumber(b)
         THEN IF b.n = 0 THEN Err(ZeroDivisionError)
              ELSE IF BothExact(a, b) THEN Ok(IntV(FloorDiv(a.n, b.n)))
              ELSE Ok(FloatV(FloorDiv(a.n * b.d, a.d * b.n), 1))
         ELSE Err(OperandError)
    [] op = "lt" ->
         IF IsNumber(a) /\ IsNumber(b) THEN Ok(BoolV(NumLess(a, b)))
         ELSE IF a.t = "str" /\ b.t = "str" THEN Ok(BoolV(StrLess(a.s, b.s)))
         ELSE Err(OperandError)
    [] op = "gt" ->
         IF IsNumber(a) /\ IsNumber(b) THEN Ok(BoolV(NumLess(b, a)))
         ELSE IF a.t = "str" /\ b.t = "str" THEN Ok(BoolV(StrLess(b.s, a.s)))
         ELSE Err(OperandError)
    [] op = "le" ->
         IF IsNumber(a) /\ IsNumber(b) THEN Ok(BoolV(~NumLess(b, a)))
         ELSE IF a.t = "str" /\ b.t = "str" THEN Ok(BoolV(~StrLess(b.s, a.s)))
         ELSE Err(OperandError)
    [] op = "ge" ->
         IF IsNumber(a) /\ IsNumber(b) THEN Ok(BoolV(~NumLess(a, b)))
         ELSE IF a.t = "str" /\ b.t = "str" THEN Ok(BoolV(~StrLess(a.s, b.s)))
         ELSE Err(OperandError)
    [] op = "eq" -> Ok(BoolV(PyEq(a, b)))
    [] op = "ne" -> Ok(BoolV(~PyEq(a, b)))

\* bool(v) of the host, as operator.not_ sees it
PyTruthy(v) ==
  CASE v.t = "nil" -> FALSE
    [] v.t \in {"bool", "int", "float"} -> v.n # 0
    [] v.t = "str" -> Len(v.s) > 0
    [] OTHER -> TRUE

\* operator.not_ / operator.neg
PrimUnary(op, v) ==
  CASE op = "not_" -> Ok(BoolV(~PyTruthy(v)))
    [] op = "neg" ->
         IF v.t \in {"int", "bool"} THEN Ok(IntV(0 - v.n))
         ELSE IF v.t = "float" THEN Ok(FloatV(0 - v.n, v.d))
         ELSE Err(OperandError)

\* BinOp.eval, after both operands are evaluated (ast.py:93-100)
BinOpResult(op, left_value, right_value) ==
  LET r == PrimOp(op, left_value, right_value)
  IN IF r.ok /\ IsIntegerFloat(left_value) /\ IsIntegerFloat(right_value)
        /\ r.val.t = "float"
     THEN Ok(IntV(IntOfFloat(r.val)))
     ELSE r

\* ------------------------------------------------------------ syntax nodes
\* None where a node is optional
NoNode == [kind |-> "None"]

\* the placeholder Token the parser leaves for an empty `for` initialiser
Token == [kind |-> "Token"]

Literal(value) == [kind |-> "Literal", value |-> value]

Var(name) == [kind |-> "Var", name |-> name]

BinOp(left, right, op) ==
  [kind |-> "BinOp", left |-> left, right |-> right, op |-> op]

And(left, right) == [kind |-> "And", left |-> left, right |-> right]

Or(left, right) == [kind |-> "Or", left |-> left, right |-> right]

UnaryOp(op, value) == [kind |-> "UnaryOp", op |-> op, value |-> value]

Call(obj, params) == [kind |-> "Call", obj |-> obj, params |-> params]

Assign(name, value) == [kind |-> "Assign", name |-> name, value |-> value]

Setattr(obj, attr, value) ==
  [kind |-> "Setattr", obj |-> obj, attr |-> attr, value |-> value]

PrintNode(expr) == [kind |-> "Print", expr |-> expr]

Return(value) == [kind |-> "Return", value |-> value]

VarDef(name, value, type_annotation) ==
  [kind |-> "VarDef", name |-> name, value |-> value,
   type_annotation |-> type_annotation]

If(cond, then_branch, else_branch) ==
  [kind |-> "If", cond |-> cond, then_branch |-> then_branch,
   else_branch |-> else_branch]

While(expr, stmt) == [kind |-> "While", expr |-> expr, stmt |-> stmt]

DoWhileStmt(body, condition) ==
  [kind |-> "DoWhileStmt", body |-> body, condition |-> condition]

Block(stmts) == [kind |-> "Block", stmts |-> stmts]

Param(name, type_annotation) ==
  [kind |-> "Param", name |-> name, type_annotation |-> type_annotation]

Function(name, params, body) ==
  [kind |-> "Function", name |-> name, params |-> params, body |-> body]

Program(stmts) == [kind |-> "Program", stmts |-> stmts]

\* ------------------------------------------------ syntax-tree construction
program(stmts) == Program(stmts)

block(stmts) == Block(stmts)

\* var_dec without a type annotation: value is the initialiser or NoNode
var_dec(name, value) == VarDef(name.name, value, <<>>)

if_cmd(cond, then_branch, else_branch) == If(cond, then_branch, else_branch)

while_cmd(expr, stmt) == While(expr, stmt)

do_while(stmt, expr) == DoWhileStmt(stmt, expr)

print_cmd(expr) == PrintNode(expr)

return_stmt(value) == Return(value)

expr_stmt(expr) == expr

\* the mutant of build_for that runs the increment before the body
build_for_incr_first(init, cond, incr, body) ==
  LET body2 == IF incr.kind # "None" THEN Block(<<incr, body>>) ELSE body
      cond2 == IF cond.kind = "None" THEN Literal(BoolV(TRUE)) ELSE cond
      while_loop == While(cond2, body2)
  IN IF init.kind # "None" /\ init.kind # "Token"
     THEN Block(<<init, while_loop>>)
     ELSE Block(<<while_loop>>)

build_for(init, cond, incr, body) ==
  LET body2 == IF incr.kind # "None" THEN Block(<<body, incr>>) ELSE body
      cond2 == IF cond.kind = "None" THEN Literal(BoolV(TRUE)) ELSE cond
      while_loop == While(cond2, body2)
  IN IF init.kind # "None" /\ init.kind # "Token"
     THEN Block(<<init, while_loop>>)
     ELSE Block(<<while_loop>>)

function_def(name, params, body) == Function(name.name, params, body)

assign(var, value) == Assign(var.name, value)

setattr(obj, attr_var, value) == Setattr(obj, attr_var.name, value)

or_(left, right) == Or(left, right)

and_(left, right) == And(left, right)

op_handler(op, left, right) == BinOp(left, right, op)

add(left, right) == op_handler("add", left, right)

sub(left, right) == op_handler("sub", left, right)

mul(left, right) == op_handler("mul", left, right)

div(left, right) == op_handler("floordiv", left, right)

gt(left, right) == op_handler("gt", left, right)

lt(left, right) == op_handler("lt", left, right)

ge(left, right) == op_handler("ge", left, right)

le(left, right) == op_handler("le", left, right)

eq(left, right) == op_handler("eq", left, right)

ne(left, right) == op_handler("ne", left, right)

not_(value) == UnaryOp("not_", value)

neg(value) == UnaryOp("neg", value)

call(obj, params) == Call(obj, params)

\* param without a type annotation
param(name) == Param(name.name, <<>>)

VAR(token) == Var(token)

\* float(token) for a token `ddd` or `ddd.5` / `ddd.0`
ParseFloat(token) ==
  IF Len(token) > 2 /\ token[Len(token) - 1] = "."
  THEN FloatV(2 * ParseNat(SubSeq(token, 1, Len(token) - 2))
              + (DigitVal(token[Len(token)]) \div 5), 2)
  ELSE FloatV(ParseNat(token), 1)

NUMBER(token) == Literal(ParseFloat(token))

\* the token without its quotes
STRING_(token) == Literal(StrV(SubSeq(token, 2, Len(token) - 1)))

NIL == Literal(Nil)

BOOL(token) == Literal(BoolV(token = <<"t", "r", "u", "e">>))

\* ------------------------------------------------------------ environments
\* Ctx(scope, parent): a scope (bindings in insertion order) and the index of
\* the parent Ctx in the heap `envs` (0: no parent).  The keys of a scope are
\* host objects: a name (str) or, as LoxFunction.call passes them, a Param.
NameKey(name) == [obj |-> "str", name |-> name, ann |-> <<>>]

ParamKey(p) == [obj |-> "Param", name |-> p.name, ann |-> p.type_annotation]

NewCtx(parent) == [scope |-> <<>>, parent |-> parent]

ScopeHas(scope, key) == \E i \in 1..Len(scope) : scope[i].key = key

ScopeGet(scope, key) ==
  scope[CHOOSE i \in 1..Len(scope) : scope[i].key = key].val

ScopePut(scope, key, val) ==
  IF ScopeHas(scope, key)
  THEN [i \in 1..Len(scope) |->
          IF scope[i].key = key THEN [key |-> key, val |-> val] ELSE scope[i]]
  ELSE Append(scope, [key |-> key, val |-> val])

RECURSIVE Ctx_find(_, _, _)
\* the nearest Ctx of the chain from e that defines key (0: none does)
Ctx_find(es, e, key) ==
  IF e = 0 THEN 0
  ELSE IF ScopeHas(es[e].scope, key) THEN e
  ELSE Ctx_find(es, es[e].parent, key)

\* ctx.var_def(name, value): insert or overwrite in this Ctx only
Ctx_var_def(es, e, key, val) ==
  [es EXCEPT ![e].scope = ScopePut(@, key, val)]

\* ctx[name], for a name the chain defines
Ctx_getitem(es, e, key) == ScopeGet(es[Ctx_find(es, e, key)].scope, key)

\* ctx[name] = value, for a name the chain defines
Ctx_setitem(es, e, key, val) ==
  Ctx_var_def(es, Ctx_find(es, e, key), key, val)

\* what storing under a Param object (an unhashable dataclass instance) may
\* do in a scope: keep the binding under that object, or raise TypeError
ParamKeyOutcomes == {"stored", "unhashable"}

UnhashableError == MkExc("TypeError", "unhashable type", <<>>, Nil, 0, 0)

\* KeyError(name): what ctx[name] and ctx[name] = value raise for an
\* undefined name (the UndefinedVariable error of the environment)
KeyError(name) == MkExc("KeyError", "undefined variable", name, Nil, 0, 0)

\* the chain of Ctx indices from e to the root
RECURSIVE Chain(_, _)
Chain(es, e) == IF e = 0 THEN <<>> ELSE <<e>> \o Chain(es, es[e].parent)

\* ---------------------------------------------------------------- programs
\* Source programs, built the way the transformer builds them from the parse
\* tree.  A program is named by a record [fam, a, b, c]: a family and up to
\* three parameters (shape, name index, value index, count).
Id(fam, a, b, c) == [fam |-> fam, a |-> a, b |-> b, c |-> c]

Quote == "\""

\* the token of a string literal
StrTok(s) == <<Quote>> \o s \o <<Quote>>

TrueTok == <<"t", "r", "u", "e">>

FalseTok == <<"f", "a", "l", "s", "e">>

Num(n) == NUMBER(NatToStr(n))

\* literal expressions used as inputs: 3, "5", true, false, "abc", nil, 0,
\* "", 2.5, "42"
Lits ==
  <<NUMBER(<<"3">>), STRING_(StrTok(<<"5">>)), BOOL(TrueTok), BOOL(FalseTok),
    STRING_(StrTok(<<"a", "b", "c">>)), NIL, NUMBER(<<"0">>),
    STRING_(StrTok(<<>>)), NUMBER(<<"2", ".", "5">>),
    STRING_(StrTok(<<"4", "2">>))>>

\* variable / attribute names used as inputs
Names ==
  <<(<<"i">>), (<<"j">>), (<<"k">>), (<<"l">>), (<<"m">>), (<<"n">>),
    (<<"n", "u", "m">>), (<<"x">>), (<<"h">>), (<<"o">>), (<<"x", "i">>)>>

ParamNames == <<(<<"a">>), (<<"b">>), (<<"c">>), (<<"d">>)>>

vx == VAR(<<"x">>)
vf == VAR(<<"f">>)
vg == VAR(<<"g">>)
vr == VAR(<<"r">>)
iv == VAR(<<"i">>)

Say(s) == print_cmd(STRING_(StrTok(s)))

\* fun f(a, b, ..) { print "body"; x = 9; return a; }  var r = f(10, 20, ..);
CallProgram(np, na) ==
  program(<<
    var_dec(vx, Num(0)),
    function_def(vf, [i \in 1..np |-> param(VAR(ParamNames[i]))],
      block(<<Say(<<"b", "o", "d", "y">>),
              expr_stmt(assign(vx, Num(9))),
              return_stmt(IF np > 0 THEN VAR(ParamNames[1]) ELSE Num(7))>>)),
    var_dec(vr, call(vf, [i \in 1..na |-> Num(10 * i)])),
    print_cmd(vr)>>)

\* var c = <value>; c(<args>);   (for v = 0 the value is an integer: var i = 3)
NotCallableProgram(v, na) ==
  LET c == IF v = 0 THEN iv ELSE VAR(<<"c">>)
  IN program(<<
       var_dec(c, IF v = 0 THEN Num(3) ELSE Lits[v]),
       expr_stmt(call(c, [i \in 1..na |-> Num(10 * i)])),
       Say(<<"a", "f", "t", "e", "r">>)>>)

\* a function reading a free x, called where another x is local
LexicalProgram(shape) ==
  LET fdecl == function_def(vf, <<>>, block(<<print_cmd(vx)>>))
      decl == var_dec(vx, STRING_(StrTok(<<"d", "e", "c", "l">>)))
      local == var_dec(vx, STRING_(StrTok(<<"c", "a", "l", "l", "e", "r">>)))
      glob == var_dec(vx, STRING_(StrTok(<<"g", "l", "o", "b", "a", "l">>)))
  IN IF shape = 1
     THEN program(<<glob,
            block(<<decl, fdecl,
                    function_def(vg, <<>>,
                      block(<<local, expr_stmt(call(vf, <<>>))>>)),
                    expr_stmt(call(vg, <<>>))>>)>>)
     ELSE IF shape = 2
     THEN program(<<decl, fdecl,
            block(<<local, expr_stmt(call(vf, <<>>))>>)>>)
     ELSE program(<<glob,
            block(<<decl, fdecl,
                    block(<<local, block(<<expr_stmt(call(vf, <<>>))>>)>>)>>)>>)

Dead == Say(<<"d", "e", "a", "d">>)

\* the statement that holds the return of a "return" program
ReturnShape(shape, ret) ==
  CASE shape = 1 -> ret
    [] shape = 2 -> block(<<ret, Dead>>)
    [] shape = 3 -> if_cmd(BOOL(TrueTok), ret, NoNode)
    [] shape = 4 -> while_cmd(BOOL(TrueTok), block(<<ret, Dead>>))
    [] shape = 5 -> do_while(block(<<ret, Dead>>), BOOL(TrueTok))
    [] shape = 6 -> if_cmd(BOOL(FalseTok), Dead, block(<<block(<<ret>>), Dead>>))
    [] OTHER -> ret

\* fun g() { return "g"; print "dead"; }
\* fun f() { print "in"; [print g();] <shape with return [7]>; print "dead"; }
\* print f(); print "after";
\* shape 7 calls g before returning; shape 8 has no return at all
ReturnProgram(shape, withValue) ==
  LET ret == return_stmt(IF withValue = 1 THEN Num(7) ELSE NoNode)
      body == IF shape = 8 THEN <<Say(<<"i", "n">>)>>
              ELSE IF shape = 7
              THEN <<Say(<<"i", "n">>), print_cmd(call(vg, <<>>)), ret, Dead>>
              ELSE <<Say(<<"i", "n">>), ReturnShape(shape, ret), Dead>>
  IN program(<<
       function_def(vg, <<>>,
         block(<<return_stmt(STRING_(StrTok(<<"g">>))), Dead>>)),
       function_def(vf, <<>>, block(body)),
       print_cmd(call(vf, <<>>)),
       Say(<<"a", "f", "t", "e", "r">>)>>)

\* print "before"; <shape with return [7]>; print "after";  at top level
StrayProgram(shape, withValue) ==
  LET ret == return_stmt(IF withValue = 1 THEN Num(7) ELSE NoNode)
  IN program(<<Say(<<"b", "e", "f", "o", "r", "e">>),
               ReturnShape(shape, ret),
               Say(<<"a", "f", "t", "e", "r">>)>>)

\* an assignment to the undeclared Names[n], at top level (1), in a block (2),
\* in a function body (3), or after a declaration in an inner block that has
\* ended (4)
UndeclaredProgram(shape, n, v) ==
  LET asg == expr_stmt(assign(VAR(Names[n]), Lits[v]))
      other == var_dec(VAR(<<"y">>), Num(1))
  IN CASE shape = 1 -> program(<<other, asg, Say(<<"a", "f", "t", "e", "r">>)>>)
       [] shape = 2 -> program(<<other, block(<<other, asg>>),
                                 Say(<<"a", "f", "t", "e", "r">>)>>)
       [] shape = 3 -> program(<<other,
                                 function_def(vf, <<>>, block(<<other, asg>>)),
                                 expr_stmt(call(vf, <<>>)),
                                 Say(<<"a", "f", "t", "e", "r">>)>>)
       [] OTHER -> program(<<other,
                             block(<<var_dec(VAR(Names[n]), Num(1))>>),
                             asg, Say(<<"a", "f", "t", "e", "r">>)>>)

\* var NAME [= 1]; NAME = <value>; print NAME;  with the assignment at top
\* level (1), in a nested block (2) or in a function body (3)
DeclAssignProgram(shape, n, v) ==
  LET decl == var_dec(VAR(Names[n]), IF v % 2 = 0 THEN NoNode ELSE Num(1))
      asg == expr_stmt(assign(VAR(Names[n]), Lits[v]))
      show == print_cmd(VAR(Names[n]))
  IN CASE shape = 1 -> program(<<decl, asg, show>>)
       [] shape = 2 -> program(<<decl, block(<<asg, show>>), show>>)
       [] OTHER -> program(<<decl,
                             function_def(vf, <<>>, block(<<asg, show>>)),
                             expr_stmt(call(vf, <<>>)), show>>)

\* var x = 1; fun f() { return x; } x = 2; ... x = k + 1; print f();
ClosureProgram(k) ==
  program(
    <<var_dec(vx, Num(1)),
      function_def(vf, <<>>, block(<<return_stmt(vx)>>))>>
    \o [j \in 1..k |-> expr_stmt(assign(vx, Num(j + 1)))]
    \o <<print_cmd(call(vf, <<>>))>>)

\* var x = 0; fun g() { print "side"; x = 9; return 7; }
\* var r = <left> and g();     (or: <left> or g())
LogicProgram(isOr, v) ==
  program(<<
    var_dec(vx, Num(0)),
    function_def(vg, <<>>,
      block(<<Say(<<"s", "i", "d", "e">>),
              expr_stmt(assign(vx, Num(9))),
              return_stmt(Num(7))>>)),
    var_dec(vr, IF isOr = 1 THEN or_(Lits[v], call(vg, <<>>))
               ELSE and_(Lits[v], call(vg, <<>>)))>>)

\* a store of Lits[v] under Names[n]: by declaration (1), by assignment (2),
\* by attribute assignment on a function object (3)
CoerceProgram(site, n, v) ==
  CASE site = 1 -> program(<<var_dec(VAR(Names[n]), Lits[v])>>)
    [] site = 2 -> program(<<var_dec(VAR(Names[n]), NoNode),
                             expr_stmt(assign(VAR(Names[n]), Lits[v]))>>)
    [] OTHER -> program(<<function_def(vf, <<>>, block(<<>>)),
                          expr_stmt(setattr(vf, VAR(Names[n]), Lits[v]))>>)

Incr == assign(iv, add(iv, Num(1)))

\* the `for` programs, with limit N:
\*  1  for (i = 0; i < N; i = i + 1) print i;                (i undeclared)
\*  2  var i; for (i = 0; i < N; i = i + 1) print i;
\*  3  for (var i = 0; i < N; i = i + 1) print i;
\*  4  var i; for (i = z(); c(); s()) print i;   z, c, s print "z", "c", "s"
\*  5  var i = 0; for (; i < N;) { print i; i = i + 1; }
\*  6  fun f() { var i = 0; for (;; i = i + 1) { if (i >= N) return i; print i; } }
\*     print f();
ForProgram(shape, N) ==
  LET cond == lt(iv, Num(N))
      body == print_cmd(iv)
      after == Say(<<"e", "n", "d">>)
  IN CASE shape = 1 ->
            program(<<build_for(assign(iv, Num(0)), cond, Incr, body), after>>)
       [] shape = 2 ->
            program(<<var_dec(iv, NoNode),
                      build_for(assign(iv, Num(0)), cond, Incr, body), after>>)
       [] shape = 3 ->
            program(<<build_for(var_dec(iv, Num(0)), cond, Incr, body), after>>)
       [] shape = 4 ->
            program(<<
              var_dec(iv, NoNode),
              function_def(VAR(<<"z">>), <<>>,
                block(<<Say(<<"z">>), return_stmt(Num(0))>>)),
              function_def(VAR(<<"c">>), <<>>,
                block(<<Say(<<"c">>), return_stmt(cond)>>)),
              function_def(VAR(<<"s">>), <<>>,
                block(<<Say(<<"s">>), expr_stmt(Incr)>>)),
              build_for(assign(iv, call(VAR(<<"z">>), <<>>)),
                        call(VAR(<<"c">>), <<>>),
                        call(VAR(<<"s">>), <<>>), body),
              after>>)
       [] shape = 5 ->
            program(<<var_dec(iv, Num(0)),
                      build_for(Token, cond, NoNode,
                                block(<<body, expr_stmt(Incr)>>)),
                      after>>)
       [] OTHER ->
            program(<<
              function_def(vf, <<>>,
                block(<<var_dec(iv, Num(0)),
                        build_for(Token, NoNode, Incr,
                          block(<<if_cmd(ge(iv, Num(N)), return_stmt(iv), NoNode),
                                  body>>))>>)),
              print_cmd(call(vf, <<>>)), after>>)

\* var i = 0; do { print i; i = i + 1; } while (i < N);
DoWhileProgram(N) ==
  program(<<var_dec(iv, Num(0)),
            do_while(block(<<print_cmd(iv), expr_stmt(Incr)>>), lt(iv, Num(N))),
            Say(<<"e", "n", "d">>)>>)

\* print -3; print !nil; if (false) print 1; else print 2;
\* print 7 / 2; print 2.5 * 2; print "a" + "b"; print 2 - 3; print 1 == 1;
\* print 3 != 3; print 2 > 1; print 2 >= 3; print 2 <= 3; print -"a";
MiscProgram ==
  program(<<
    print_cmd(neg(Num(3))),
    print_cmd(not_(NIL)),
    if_cmd(BOOL(FalseTok), print_cmd(Num(1)), print_cmd(Num(2))),
    print_cmd(div(Num(7), Num(2))),
    print_cmd(mul(NUMBER(<<"2", ".", "5">>), Num(2))),
    print_cmd(add(STRING_(StrTok(<<"a">>)), STRING_(StrTok(<<"b">>)))),
    print_cmd(sub(Num(2), Num(3))),
    print_cmd(eq(Num(1), Num(1))),
    print_cmd(ne(Num(3), Num(3))),
    print_cmd(gt(Num(2), Num(1))),
    print_cmd(ge(Num(2), Num(3))),
    print_cmd(le(Num(2), Num(3))),
    print_cmd(neg(STRING_(StrTok(<<"a">>))))>>)

\* the loop programs, with limit N (c prints "c" and returns i < N):
\*  1  var i = 0; fun c() {..} do { print i; i = i + 1; } while (c());
\*  2  var i = 0; fun c() {..} while (c()) { print i; i = i + 1; }
\*  3  do print "b"; while (<falsy>);      4  while (<falsy>) print "b";
\*     (<falsy> is false for N = 0 and nil otherwise)
LoopProgram(shape, N) ==
  LET cdecl == function_def(VAR(<<"c">>), <<>>,
                 block(<<Say(<<"c">>), return_stmt(lt(iv, Num(N)))>>))
      body == block(<<print_cmd(iv), expr_stmt(Incr)>>)
      falsy == IF N = 0 THEN BOOL(FalseTok) ELSE NIL
      after == Say(<<"e", "n", "d">>)
  IN CASE shape = 1 ->
            program(<<var_dec(iv, Num(0)), cdecl,
                      do_while(body, call(VAR(<<"c">>), <<>>)), after>>)
       [] shape = 2 ->
            program(<<var_dec(iv, Num(0)), cdecl,
                      while_cmd(call(VAR(<<"c">>), <<>>), body), after>>)
       [] shape = 3 -> program(<<do_while(Say(<<"b">>), falsy), after>>)
       [] OTHER -> program(<<while_cmd(falsy, Say(<<"b">>)), after>>)

\* the arithmetic operators of the grammar, as the transformer builds them
ArithNode(o, left, right) ==
  CASE o = 1 -> add(left, right)
    [] o = 2 -> sub(left, right)
    [] o = 3 -> mul(left, right)
    [] OTHER -> div(left, right)

\* print x o y, with the operands held as
\*  1  literals                2  var i = x; var j = y; print i o j;
\*  3  var i = x; print i o y; 4  var j = y; print x o j;
ArithProgram(kind, o, x, y) ==
  LET jv == VAR(<<"j">>)
  IN CASE kind = 1 -> program(<<print_cmd(ArithNode(o, Num(x), Num(y)))>>)
       [] kind = 2 -> program(<<var_dec(iv, Num(x)), var_dec(jv, Num(y)),
                                print_cmd(ArithNode(o, iv, jv))>>)
       [] kind = 3 -> program(<<var_dec(iv, Num(x)),
                                print_cmd(ArithNode(o, iv, Num(y)))>>)
       [] OTHER -> program(<<var_dec(jv, Num(y)),
                             print_cmd(ArithNode(o, Num(x), jv))>>)

\* the failing statement of the "abort" programs:
\*  1  print u;  (u undefined)   2  c();  (c is 3)   3  t(1);  (t takes none)
FailStmt(kind) ==
  CASE kind = 1 -> print_cmd(VAR(<<"u">>))
    [] kind = 2 -> expr_stmt(call(VAR(<<"c">>), <<>>))
    [] OTHER -> expr_stmt(call(VAR(<<"t">>), <<Num(1)>>))

\* var c = 3; fun t() {} print "b"; and then the failing statement
\*  1  at the top level             2  in a block, after print "k"
\*  3  in a while body, after print i
\*  4  in the body of g, after print "g", with g called at the top level
\*  5  in the body of g, called by f, called in a do-while body in a block
\* each followed, at every level it is nested in, by print "after"
AbortProgram(kind, where) ==
  LET pre == <<var_dec(VAR(<<"c">>), Num(3)),
               function_def(VAR(<<"t">>), <<>>, block(<<>>)),
               Say(<<"b">>)>>
      after == Say(<<"a", "f", "t", "e", "r">>)
      fail == FailStmt(kind)
      gdecl == function_def(vg, <<>>, block(<<Say(<<"g">>), fail, after>>))
      fdecl == function_def(vf, <<>>,
                 block(<<Say(<<"f">>), expr_stmt(call(vg, <<>>)), after>>))
  IN CASE where = 1 -> program(pre \o <<fail, after>>)
       [] where = 2 ->
            program(pre \o <<block(<<Say(<<"k">>), fail, after>>), after>>)
       [] where = 3 ->
            program(pre \o
              <<var_dec(iv, Num(0)),
                while_cmd(lt(iv, Num(2)),
                  block(<<print_cmd(iv), fail, after, expr_stmt(Incr)>>)),
                after>>)
       [] where = 4 ->
            program(pre \o <<gdecl, expr_stmt(call(vg, <<>>)), after>>)
       [] OTHER ->
            program(pre \o
              <<gdecl, fdecl,
                block(<<var_dec(iv, Num(0)),
                        do_while(block(<<expr_stmt(call(vf, <<>>)), after,
                                         expr_stmt(Incr)>>),
                                 lt(iv, Num(2))),
                        after>>),
                after>>)

\* level L of the three nested environments declares x when bit L of mask is set
Declares(mask, L) == (mask \div (2 ^ (L - 1))) % 2 = 1

\* [var x = 1;] { [var x = 2;] { [var x = 3;] x = 9; } }   for mask in 1..7, and
\* var x = 1; fun f() { x = 9; } { var x = 2; f(); }       for mask 8
NearestProgram(mask) ==
  LET decl(L) == IF Declares(mask, L) THEN <<var_dec(vx, Num(L))>> ELSE <<>>
      store == expr_stmt(assign(vx, Num(9)))
  IN IF mask = 8
     THEN program(<<var_dec(vx, Num(1)),
                    function_def(vf, <<>>, block(<<store>>)),
                    block(<<var_dec(vx, Num(2)), expr_stmt(call(vf, <<>>))>>)>>)
     ELSE program(decl(1) \o <<block(decl(2) \o <<block(decl(3) \o <<store>>)>>)>>)

\* the block-scoping programs:
\*  1  { var y = 1; print y; } print y;
\*  2  var x = 1; { var x = 2; print x; } print x;
\*  3  var x = 1; var x = 2; print x;
\*  4  { var y = 1; var y = 2; print y; }
\*  5  var x = 1; { var x = 2; x = 3; print x; } print x;
\*  6  var x = 1; { if (true) var x = 2; print x; } print x;
ScopeProgram(shape) ==
  LET vy == VAR(<<"y">>)
  IN CASE shape = 1 ->
            program(<<block(<<var_dec(vy, Num(1)), print_cmd(vy)>>),
                      print_cmd(vy)>>)
       [] shape = 2 ->
            program(<<var_dec(vx, Num(1)),
                      block(<<var_dec(vx, Num(2)), print_cmd(vx)>>),
                      print_cmd(vx)>>)
       [] shape = 3 ->
            program(<<var_dec(vx, Num(1)), var_dec(vx, Num(2)), print_cmd(vx)>>)
       [] shape = 4 ->
            program(<<block(<<var_dec(vy, Num(1)), var_dec(vy, Num(2)),
                              print_cmd(vy)>>)>>)
       [] shape = 5 ->
            program(<<var_dec(vx, Num(1)),
                      block(<<var_dec(vx, Num(2)), expr_stmt(assign(vx, Num(3))),
                              print_cmd(vx)>>),
                      print_cmd(vx)>>)
       [] OTHER ->
            program(<<var_dec(vx, Num(1)),
                      block(<<if_cmd(BOOL(TrueTok), var_dec(vx, Num(2)), NoNode),
                              print_cmd(vx)>>),
                      print_cmd(vx)>>)

\* fun f(<name>) { print "body"; }  f(<literal>);
ParamCoerceProgram(n, v) ==
  program(<<function_def(vf, <<param(VAR(Names[n]))>>,
              block(<<Say(<<"b", "o", "d", "y">>)>>)),
            expr_stmt(call(vf, <<Lits[v]>>))>>)

\* fun f() { var y = 1; print y; }  f();
BodyEnvProgram ==
  LET vy == VAR(<<"y">>)
  IN program(<<function_def(vf, <<>>,
                 block(<<var_dec(vy, Num(1)), print_cmd(vy)>>)),
               expr_stmt(call(vf, <<>>))>>)

\* the binary operators of the grammar, as the transformer builds them
BinaryNode(o, left, right) ==
  CASE o = 5 -> lt(left, right)
    [] o = 6 -> gt(left, right)
    [] o = 7 -> le(left, right)
    [] o = 8 -> ge(left, right)
    [] o = 9 -> eq(left, right)
    [] o = 10 -> ne(left, right)
    [] OTHER -> ArithNode(o, left, right)

\* fun a() { print "a"; return 1; }  fun b() { print "b"; return 2; }  then
\*  1  print a() <o> b();
\*  2  fun t() {}  fun h() { print "h"; return t; }  h()(a(), b());
\*  3  fun t(p, q) { print "t"; }  fun h() { .. }    h()(a(), b());
\*  4  var x = 0; print (x = 1) + (x = x * 10);
\*  5  var x = 0; fun t() {}  t(x = 1, x = x * 10);
OrderProgram(shape, o) ==
  LET va == VAR(<<"a">>)
      vb == VAR(<<"b">>)
      vt == VAR(<<"t">>)
      vh == VAR(<<"h">>)
      adecl == function_def(va, <<>>, block(<<Say(<<"a">>), return_stmt(Num(1))>>))
      bdecl == function_def(vb, <<>>, block(<<Say(<<"b">>), return_stmt(Num(2))>>))
      hdecl == function_def(vh, <<>>, block(<<Say(<<"h">>), return_stmt(vt)>>))
      t0 == function_def(vt, <<>>, block(<<>>))
      t2 == function_def(vt, <<param(VAR(<<"p">>)), param(VAR(<<"q">>))>>,
                         block(<<Say(<<"t">>)>>))
      acall == call(va, <<>>)
      bcall == call(vb, <<>>)
      first == assign(vx, Num(1))
      second == assign(vx, mul(vx, Num(10)))
  IN CASE shape = 1 ->
            program(<<adecl, bdecl, print_cmd(BinaryNode(o, acall, bcall))>>)
       [] shape = 2 ->
            program(<<adecl, bdecl, t0, hdecl,
                      expr_stmt(call(call(vh, <<>>), <<acall, bcall>>))>>)
       [] shape = 3 ->
            program(<<adecl, bdecl, t2, hdecl,
                      expr_stmt(call(call(vh, <<>>), <<acall, bcall>>))>>)
       [] shape = 4 ->
            program(<<var_dec(vx, Num(0)), print_cmd(add(first, second))>>)
       [] OTHER ->
            program(<<var_dec(vx, Num(0)), t0,
                      expr_stmt(call(vt, <<first, second>>))>>)

\* var x = 0; fun a() { print "a"; return 1; } fun b() { print "b"; return 2; }
\* <callee declaration>  c(<args>);  print "after";
\* with the callee c declared as
\*  1  var c = 3;      2  var c = "abc";   3  var c;   4  var c = true;
\*  5  fun c() {}      6  fun c(p) {}
\* and the arguments   1  a(), b()         2  x = 1, x = x * 10
FailCallProgram(callee, args) ==
  LET va == VAR(<<"a">>)
      vb == VAR(<<"b">>)
      vc == VAR(<<"c">>)
      adecl == function_def(va, <<>>, block(<<Say(<<"a">>), return_stmt(Num(1))>>))
      bdecl == function_def(vb, <<>>, block(<<Say(<<"b">>), return_stmt(Num(2))>>))
      cdecl == CASE callee = 1 -> var_dec(vc, Num(3))
                 [] callee = 2 -> var_dec(vc, STRING_(StrTok(<<"a", "b", "c">>)))
                 [] callee = 3 -> var_dec(vc, NoNode)
                 [] callee = 4 -> var_dec(vc, BOOL(TrueTok))
                 [] callee = 5 -> function_def(vc, <<>>, block(<<>>))
                 [] OTHER -> function_def(vc, <<param(VAR(<<"p">>))>>, block(<<>>))
      actuals == IF args = 1 THEN <<call(va, <<>>), call(vb, <<>>)>>
                 ELSE <<assign(vx, Num(1)), assign(vx, mul(vx, Num(10)))>>
  IN program(<<var_dec(vx, Num(0)), adecl, bdecl, cdecl,
               expr_stmt(call(vc, actuals)),
               Say(<<"a", "f", "t", "e", "r">>)>>)

\* var d = 0;
\* fun f(p) { var y = d; d = d + 1; if (d < N) f(d); print y; }   (np = 1)
\* fun f()  { var y = d; d = d + 1; if (d < N) f();  print y; }   (np = 0)
\* f(7); d = 0; f(7);
FreshProgram(np, N) ==
  LET vd == VAR(<<"d">>)
      vy == VAR(<<"y">>)
      inner == call(vf, IF np = 1 THEN <<vd>> ELSE <<>>)
      outer == call(vf, IF np = 1 THEN <<Num(7)>> ELSE <<>>)
  IN program(<<
       var_dec(vd, Num(0)),
       function_def(vf, IF np = 1 THEN <<param(VAR(<<"p">>))>> ELSE <<>>,
         block(<<var_dec(vy, vd),
                 expr_stmt(assign(vd, add(vd, Num(1)))),
                 if_cmd(lt(vd, Num(N)), expr_stmt(inner), NoNode),
                 print_cmd(vy)>>)),
       expr_stmt(outer),
       expr_stmt(assign(vd, Num(0))),
       expr_stmt(outer)>>)

ProgramIds ==
  {Id("call", a, b, 0) : a \in 0..MaxArgs, b \in 0..MaxArgs}
  \cup {Id("notcallable", a, b, 0) : a \in 0..6, b \in 0..1}
  \cup {Id("lexical", a, 0, 0) : a \in 1..3}
  \cup {Id("return", a, b, 0) : a \in 1..8, b \in 0..1}
  \cup {Id("stray", a, b, 0) : a \in 1..6, b \in 0..1}
  \cup {Id("undeclared", a, b, 1) : a \in 1..4, b \in {1, 8}}
  \cup {Id("declassign", a, b, c) :
          a \in 1..3, b \in 1..Len(Names), c \in 1..Len(Lits)}
  \cup {Id("closure", a, 0, 0) : a \in 0..MaxReassign}
  \cup {Id("logic", a, b, 0) : a \in 0..1, b \in 1..Len(Lits)}
  \cup {Id("coerce", a, b, c) :
          a \in 1..3, b \in 1..Len(Names), c \in 1..Len(Lits)}
  \cup {Id("for", a, b, 0) : a \in 1..6, b \in 0..MaxLoop}
  \cup {Id("dowhile", a, 0, 0) : a \in 0..MaxLoop}
  \cup {Id("loop", a, b, 0) : a \in 1..4, b \in 0..MaxLoop}
  \cup {Id("arith", a, b, c) : a \in 1..4, b \in 1..4,
                               c \in 0..((MaxNum + 1) * (MaxNum + 1) - 1)}
  \cup {Id("abort", a, b, 0) : a \in 1..3, b \in 1..5}
  \cup {Id("nearest", a, 0, 0) : a \in 1..8}
  \cup {Id("scope", a, 0, 0) : a \in 1..6}
  \cup {Id("paramcoerce", a, b, 0) : a \in 1..Len(Names), b \in 1..Len(Lits)}
  \cup {Id("bodyenv", a, 0, 0) : a \in 1..1}
  \cup {Id("order", 1, b, 0) : b \in 1..10}
  \cup {Id("order", a, 0, 0) : a \in 2..5}
  \cup {Id("failcall", a, b, 0) : a \in 1..6, b \in 1..2}
  \cup {Id("fresh", a, b, 0) : a \in 0..1, b \in 0..MaxLoop}
  \cup {Id("misc", 0, 0, 0)}

ProgramOf(id) ==
  CASE id.fam = "call" -> CallProgram(id.a, id.b)
    [] id.fam = "notcallable" -> NotCallableProgram(id.a, id.b)
    [] id.fam = "lexical" -> LexicalProgram(id.a)
    [] id.fam = "return" -> ReturnProgram(id.a, id.b)
    [] id.fam = "stray" -> StrayProgram(id.a, id.b)
    [] id.fam = "undeclared" -> UndeclaredProgram(id.a, id.b, id.c)
    [] id.fam = "declassign" -> DeclAssignProgram(id.a, id.b, id.c)
    [] id.fam = "closure" -> ClosureProgram(id.a)
    [] id.fam = "logic" -> LogicProgram(id.a, id.b)
    [] id.fam = "coerce" -> CoerceProgram(id.a, id.b, id.c)
    [] id.fam = "for" -> ForProgram(id.a, id.b)
    [] id.fam = "dowhile" -> DoWhileProgram(id.a)
    [] id.fam = "loop" -> LoopProgram(id.a, id.b)
    [] id.fam = "arith" ->
         ArithProgram(id.a, id.b, id.c \div (MaxNum + 1), id.c % (MaxNum + 1))
    [] id.fam = "abort" -> AbortProgram(id.a, id.b)
    [] id.fam = "nearest" -> NearestProgram(id.a)
    [] id.fam = "scope" -> ScopeProgram(id.a)
    [] id.fam = "paramcoerce" -> ParamCoerceProgram(id.a, id.b)
    [] id.fam = "bodyenv" -> BodyEnvProgram
    [] id.fam = "order" -> OrderProgram(id.a, id.b)
    [] id.fam = "failcall" -> FailCallProgram(id.a, id.b)
    [] id.fam = "fresh" -> FreshProgram(id.a, id.b)
    [] OTHER -> MiscProgram

\* ------------------------------------------------------------------- state
VARIABLES
  pid,   \* the program under evaluation (an element of ProgramIds)
  ctl,   \* the evaluator's position: a node to evaluate, a value being
         \* returned, an exception being propagated, or the final outcome
  kont,  \* the stack of suspended eval / call frames (innermost last)
  envs,  \* the heap of Ctx objects; envs[1] is the root
  funs,  \* the heap of LoxFunction objects
  out    \* the lines written to standard output

vars == <<pid, ctl, kont, envs, funs, out>>

Eval(node, env) ==
  [mode |-> "eval", node |-> node, env |-> env, val |-> Nil, exc |-> NoExc]

Value(v) ==
  [mode |-> "value", node |-> NoNode, env |-> 0, val |-> v, exc |-> NoExc]

Raise(e) ==
  [mode |-> "raise", node |-> NoNode, env |-> 0, val |-> Nil, exc |-> e]

\* Program.eval returned to its caller
Done ==
  [mode |-> "done", node |-> NoNode, env |-> 0, val |-> Nil, exc |-> NoExc]

\* Program.eval was left by an exception that reached its caller
Uncaught(e) ==
  [mode |-> "uncaught", node |-> NoNode, env |-> 0, val |-> Nil, exc |-> e]

\* a suspended eval: the node, its ctx, a position, values held so far
Frame(f, node, env, i, vals, v) ==
  [f |-> f, node |-> node, env |-> env, i |-> i, vals |-> vals, v |-> v]

Top == kont[Len(kont)]

Pop == SubSeq(kont, 1, Len(kont) - 1)

Evaluating(kind) == ctl.mode = "eval" /\ ctl.node.kind = kind

Returning(f) == ctl.mode = "value" /\ Len(kont) > 0 /\ Top.f = f

Init ==
  /\ pid \in ProgramIds
  /\ ctl = Eval(ProgramOf(pid), 1)
  /\ kont = <<>>
  /\ envs = <<NewCtx(0)>>
  /\ funs = <<>>
  /\ out = <<>>

\* -------------------------------------------------- Program.eval ast.py:65
ProgramEval ==
  /\ Evaluating("Program")
  /\ IF Len(ctl.node.stmts) = 0
     THEN ctl' = Done /\ kont' = kont
     ELSE /\ ctl' = Eval(ctl.node.stmts[1], ctl.env)
          /\ kont' = Append(kont, Frame("Program", ctl.node, ctl.env, 1, <<>>, Nil))
  /\ UNCHANGED <<pid, envs, funs, out>>

ProgramNext ==
  /\ Returning("Program")
  /\ IF Top.i < Len(Top.node.stmts)
     THEN /\ ctl' = Eval(Top.node.stmts[Top.i + 1], Top.env)
          /\ kont' = Append(Pop, [Top EXCEPT !.i = @ + 1])
     ELSE ctl' = Done /\ kont' = Pop
  /\ UNCHANGED <<pid, envs, funs, out>>

\* --------------------------------------------------- Block.eval ast.py:292
\* the mutant of BlockEval that evaluates the block in the current Ctx
BlockEvalSameCtx ==
  /\ Evaluating("Block")
  /\ envs' = envs
  /\ IF Len(ctl.node.stmts) = 0
     THEN ctl' = Value(Nil) /\ kont' = kont
     ELSE /\ ctl' = Eval(ctl.node.stmts[1], ctl.env)
          /\ kont' = Append(kont, Frame("Block", ctl.node, ctl.env, 1, <<>>, Nil))
  /\ UNCHANGED <<pid, funs, out>>

BlockEval ==
  /\ Evaluating("Block")
  /\ envs' = Append(envs, NewCtx(ctl.env))
  /\ IF Len(ctl.node.stmts) = 0
     THEN ctl' = Value(Nil) /\ kont' = kont
     ELSE /\ ctl' = Eval(ctl.node.stmts[1], Len(envs) + 1)
          /\ kont' = Append(kont,
                       Frame("Block", ctl.node, Len(envs) + 1, 1, <<>>, Nil))
  /\ UNCHANGED <<pid, funs, out>>

BlockNext ==
  /\ Returning("Block")
  /\ IF Top.i < Len(Top.node.stmts)
     THEN /\ ctl' = Eval(Top.node.stmts[Top.i + 1], Top.env)
          /\ kont' = Append(Pop, [Top EXCEPT !.i = @ + 1])
     ELSE ctl' = Value(Nil) /\ kont' = Pop
  /\ UNCHANGED <<pid, envs, funs, out>>

\* ------------------------------------------------- Literal.eval ast.py:118
LiteralEval ==
  /\ Evaluating("Literal")
  /\ ctl' = Value(ctl.node.value)
  /\ UNCHANGED <<pid, kont, envs, funs, out>>

\* ----------------------------------------------------- Var.eval ast.py:107
VarEval ==
  /\ Evaluating("Var")
  /\ ctl' = IF Ctx_find(envs, ctl.env, NameKey(ctl.node.name)) # 0
            THEN Value(Ctx_getitem(envs, ctl.env, NameKey(ctl.node.name)))
            ELSE Raise(NameError(ctl.node.name))
  /\ UNCHANGED <<pid, kont, envs, funs, out>>

\* ---------------------------------------------------- BinOp.eval ast.py:90
\* the mutant of BinOpEval that evaluates the right operand first
BinOpEvalRightFirst ==
  /\ Evaluating("BinOp")
  /\ ctl' = Eval(ctl.node.right, ctl.env)
  /\ kont' = Append(kont,
               Frame("BinOpLeft",
                     [ctl.node EXCEPT !.left = ctl.node.right,
                                      !.right = ctl.node.left],
                     ctl.env, 0, <<>>, Nil))
  /\ UNCHANGED <<pid, envs, funs, out>>

BinOpEval ==
  /\ Evaluating("BinOp")
  /\ ctl' = Eval(ctl.node.left, ctl.env)
  /\ kont' = Append(kont, Frame("BinOpLeft", ctl.node, ctl.env, 0, <<>>, Nil))
  /\ UNCHANGED <<pid, envs, funs, out>>

BinOpLeft ==
  /\ Returning("BinOpLeft")
  /\ ctl' = Eval(Top.node.right, Top.env)
  /\ kont' = Append(Pop, [Top EXCEPT !.f = "BinOpRight", !.v = ctl.val])
  /\ UNCHANGED <<pid, envs, funs, out>>

BinOpRight ==
  /\ Returning("BinOpRight")
  /\ LET r == BinOpResult(Top.node.op, Top.v, ctl.val)
     IN ctl' = IF r.ok THEN Value(r.val) ELSE Raise(r.exc)
  /\ kont' = Pop
  /\ UNCHANGED <<pid, envs, funs, out>>

\* ----------------------------------------------------- And.eval ast.py:129
AndEval ==
  /\ Evaluating("And")
  /\ ctl' = Eval(ctl.node.left, ctl.env)
  /\ kont' = Append(kont, Frame("AndLeft", ctl.node, ctl.env, 0, <<>>, Nil))
  /\ UNCHANGED <<pid, envs, funs, out>>

\* the mutant of AndLeft that evaluates the right operand in every case
AndLeftEager ==
  /\ Returning("AndLeft")
  /\ ctl' = Eval(Top.node.right, Top.env)
  /\ kont' = Pop
  /\ UNCHANGED <<pid, envs, funs, out>>

AndLeft ==
  /\ Returning("AndLeft")
  /\ ctl' = IF ~is_truthy(ctl.val) THEN Value(ctl.val)
            ELSE Eval(Top.node.right, Top.env)
  /\ kont' = Pop
  /\ UNCHANGED <<pid, envs, funs, out>>

\* ------------------------------------------------------ Or.eval ast.py:142
OrEval ==
  /\ Evaluating("Or")
  /\ ctl' = Eval(ctl.node.left, ctl.env)
  /\ kont' = Append(kont, Frame("OrLeft", ctl.node, ctl.env, 0, <<>>, Nil))
  /\ UNCHANGED <<pid, envs, funs, out>>

OrLeft ==
  /\ Returning("OrLeft")
  /\ ctl' = IF is_truthy(ctl.val) THEN Value(ctl.val)
            ELSE Eval(Top.node.right, Top.env)
  /\ kont' = Pop
  /\ UNCHANGED <<pid, envs, funs, out>>

\* ------------------------------------------------- UnaryOp.eval ast.py:155
UnaryOpEval ==
  /\ Evaluating("UnaryOp")
  /\ ctl' = Eval(ctl.node.value, ctl.env)
  /\ kont' = Append(kont, Frame("UnaryOpValue", ctl.node, ctl.env, 0, <<>>, Nil))
  /\ UNCHANGED <<pid, envs, funs, out>>

UnaryOpValue ==
  /\ Returning("UnaryOpValue")
  /\ LET r == PrimUnary(Top.node.op, ctl.val)
     IN ctl' = IF r.ok THEN Value(r.val) ELSE Raise(r.exc)
  /\ kont' = Pop
  /\ UNCHANGED <<pid, envs, funs, out>>

\* ------------------------------------- LoxFunction.call runtime.py:47-69
\* the mutant of CallParent that gives dynamic scoping
CallParentDynamic(closure, caller) == caller

\* parent of the call's Ctx: Ctx(scope={}, parent=self.closure)
CallParent(closure, caller) == closure

RECURSIVE BindParams(_, _, _, _, _)
\* for param_name, arg_value in zip(self.params, args): ctx.var_def(...)
BindParams(es, e, params, args, i) ==
  IF i > Len(params) \/ i > Len(args) THEN es
  ELSE BindParams(Ctx_var_def(es, e, ParamKey(params[i]), args[i]),
                  e, params, args, i + 1)

\* the mutant of CallStart that binds and runs in the closure's Ctx
CallStartInClosure(fn, args, caller, k) ==
  \E outcome \in ParamKeyOutcomes :
    /\ outcome = "unhashable" => Len(funs[fn].params) > 0 /\ Len(args) > 0
    /\ IF outcome = "unhashable"
       THEN /\ envs' = envs
            /\ ctl' = Raise(UnhashableError)
            /\ kont' = k
       ELSE /\ envs' = BindParams(envs, funs[fn].closure, funs[fn].params, args, 1)
            /\ ctl' = Eval(funs[fn].body, funs[fn].closure)
            /\ kont' = Append(k, Frame("CallBody", funs[fn].body,
                                       funs[fn].closure, fn, args, FunV(fn)))

\* the call's frame, from the creation of its Ctx on
CallStart(fn, args, caller, k) ==
  \E outcome \in ParamKeyOutcomes :
    /\ outcome = "unhashable" => Len(funs[fn].params) > 0 /\ Len(args) > 0
    /\ IF outcome = "unhashable"
       THEN /\ envs' = Append(envs, NewCtx(CallParent(funs[fn].closure, caller)))
            /\ ctl' = Raise(UnhashableError)
            /\ kont' = k
       ELSE /\ envs' = BindParams(
                         Append(envs, NewCtx(CallParent(funs[fn].closure, caller))),
                         Len(envs) + 1, funs[fn].params, args, 1)
            /\ ctl' = Eval(funs[fn].body, Len(envs) + 1)
            /\ kont' = Append(k, Frame("CallBody", funs[fn].body,
                                       Len(envs) + 1, fn, args, FunV(fn)))

\* the mutant of LoxFunction_call without the argument-count check
LoxFunction_call_unchecked(fn, args, caller, k) == CallStart(fn, args, caller, k)

\* self.call(args), called from ctx `caller` with the frames k below it
LoxFunction_call(fn, args, caller, k) ==
  IF Len(args) # Len(funs[fn].params)
  THEN /\ ctl' = Raise(ArityError(Len(funs[fn].params), Len(args)))
       /\ kont' = k
       /\ envs' = envs
  ELSE CallStart(fn, args, caller, k)

\* ---------------------------------------------------- Call.eval ast.py:165
\* `if callable(obj): return obj(*params)`, else TypeError
CallInvoke(obj, args, caller, k) ==
  IF obj.t = "fun"
  THEN LoxFunction_call(obj.n, args, caller, k)
  ELSE ctl' = Raise(NotCallable) /\ kont' = k /\ envs' = envs

CallEval ==
  /\ Evaluating("Call")
  /\ ctl' = Eval(ctl.node.obj, ctl.env)
  /\ kont' = Append(kont, Frame("CallObj", ctl.node, ctl.env, 0, <<>>, Nil))
  /\ UNCHANGED <<pid, envs, funs, out>>

\* the mutant of CallObj that checks the callee before the arguments
CallObjChecksFirst ==
  /\ Returning("CallObj")
  /\ IF ctl.val.t # "fun"
     THEN ctl' = Raise(NotCallable) /\ kont' = Pop /\ envs' = envs
     ELSE IF Len(funs[ctl.val.n].params) # Len(Top.node.params)
     THEN /\ ctl' = Raise(ArityError(Len(funs[ctl.val.n].params),
                                     Len(Top.node.params)))
          /\ kont' = Pop /\ envs' = envs
     ELSE IF Len(Top.node.params) = 0
     THEN CallInvoke(ctl.val, <<>>, Top.env, Pop)
     ELSE /\ ctl' = Eval(Top.node.params[1], Top.env)
          /\ kont' = Append(Pop, [Top EXCEPT !.f = "CallArg", !.i = 1, !.v = ctl.val])
          /\ envs' = envs
  /\ UNCHANGED <<pid, funs, out>>

CallObj ==
  /\ Returning("CallObj")
  /\ IF Len(Top.node.params) = 0
     THEN CallInvoke(ctl.val, <<>>, Top.env, Pop)
     ELSE /\ ctl' = Eval(Top.node.params[1], Top.env)
          /\ kont' = Append(Pop, [Top EXCEPT !.f = "CallArg", !.i = 1, !.v = ctl.val])
          /\ envs' = envs
  /\ UNCHANGED <<pid, funs, out>>

CallArg ==
  /\ Returning("CallArg")
  /\ IF Top.i < Len(Top.node.params)
     THEN /\ ctl' = Eval(Top.node.params[Top.i + 1], Top.env)
          /\ kont' = Append(Pop, [Top EXCEPT !.i = @ + 1,
                                             !.vals = Append(@, ctl.val)])
          /\ envs' = envs
     ELSE CallInvoke(Top.v, Append(Top.vals, ctl.val), Top.env, Pop)
  /\ UNCHANGED <<pid, funs, out>>

\* the body completed: `return None` (runtime.py:69)
CallBodyDone ==
  /\ Returning("CallBody")
  /\ ctl' = Value(Nil)
  /\ kont' = Pop
  /\ UNCHANGED <<pid, envs, funs, out>>

\* the mutant of CallBodyReturn whose handler catches every exception
CallBodyReturnCatchesAll ==
  /\ ctl.mode = "raise"
  /\ Len(kont) > 0 /\ Top.f = "CallBody"
  /\ ctl' = Value(ctl.exc.val)
  /\ kont' = Pop
  /\ UNCHANGED <<pid, envs, funs, out>>

\* the mutant of CallBodyReturn that drops the carried value
CallBodyReturnNil ==
  /\ ctl.mode = "raise" /\ ctl.exc.type = "LoxReturn"
  /\ Len(kont) > 0 /\ Top.f = "CallBody"
  /\ ctl' = Value(Nil)
  /\ kont' = Pop
  /\ UNCHANGED <<pid, envs, funs, out>>

\* `except LoxReturn as ret: return ret.value` (runtime.py:65-66)
CallBodyReturn ==
  /\ ctl.mode = "raise" /\ ctl.exc.type = "LoxReturn"
  /\ Len(kont) > 0 /\ Top.f = "CallBody"
  /\ ctl' = Value(ctl.exc.val)
  /\ kont' = Pop
  /\ UNCHANGED <<pid, envs, funs, out>>

\* an exception leaves the innermost suspended eval, which has no handler
Unwind ==
  /\ ctl.mode = "raise"
  /\ Len(kont) > 0
  /\ ~(ctl.exc.type = "LoxReturn" /\ Top.f = "CallBody")
  /\ kont' = Pop
  /\ UNCHANGED <<pid, ctl, envs, funs, out>>

\* an exception leaves Program.eval, which has no handler (ast.py:65-67)
Escape ==
  /\ ctl.mode = "raise"
  /\ Len(kont) = 0
  /\ ctl' = Uncaught(ctl.exc)
  /\ UNCHANGED <<pid, kont, envs, funs, out>>

\* -------------------------------------------------- Assign.eval ast.py:187
AssignEval ==
  /\ Evaluating("Assign")
  /\ ctl' = Eval(ctl.node.value, ctl.env)
  /\ kont' = Append(kont, Frame("AssignValue", ctl.node, ctl.env, 0, <<>>, Nil))
  /\ UNCHANGED <<pid, envs, funs, out>>

RECURSIVE OutermostDefining(_, _, _)
\* the outermost Ctx of the chain from e that defines key (0: none does)
OutermostDefining(es, e, key) ==
  IF e = 0 THEN 0
  ELSE LET up == OutermostDefining(es, es[e].parent, key)
       IN IF up # 0 THEN up
          ELSE IF ScopeHas(es[e].scope, key) THEN e ELSE 0

\* the mutant of AssignValue that writes the outermost defining environment
AssignValueOutermost ==
  /\ Returning("AssignValue")
  /\ LET v == auto_convert(Top.node.name, ctl.val)
         e == OutermostDefining(envs, Top.env, NameKey(Top.node.name))
     IN IF e # 0
        THEN /\ envs' = Ctx_var_def(envs, e, NameKey(Top.node.name), v)
             /\ ctl' = Value(v)
        ELSE /\ envs' = envs
             /\ ctl' = Raise(KeyError(Top.node.name))
  /\ kont' = Pop
  /\ UNCHANGED <<pid, funs, out>>

\* the mutant of AssignValue that defines the name instead of assigning it
AssignValueDefines ==
  /\ Returning("AssignValue")
  /\ LET v == auto_convert(Top.node.name, ctl.val)
     IN /\ envs' = Ctx_var_def(envs, Top.env, NameKey(Top.node.name), v)
        /\ ctl' = Value(v)
  /\ kont' = Pop
  /\ UNCHANGED <<pid, funs, out>>

AssignValue ==
  /\ Returning("AssignValue")
  /\ LET v == auto_convert(Top.node.name, ctl.val)
     IN IF Ctx_find(envs, Top.env, NameKey(Top.node.name)) # 0
        THEN /\ envs' = Ctx_setitem(envs, Top.env, NameKey(Top.node.name), v)
             /\ ctl' = Value(v)
        ELSE /\ envs' = envs
             /\ ctl' = Raise(KeyError(Top.node.name))
  /\ kont' = Pop
  /\ UNCHANGED <<pid, funs, out>>

\* ------------------------------------------------- Setattr.eval ast.py:210
SetattrEval ==
  /\ Evaluating("Setattr")
  /\ ctl' = Eval(ctl.node.obj, ctl.env)
  /\ kont' = Append(kont, Frame("SetattrObj", ctl.node, ctl.env, 0, <<>>, Nil))
  /\ UNCHANGED <<pid, envs, funs, out>>

SetattrObj ==
  /\ Returning("SetattrObj")
  /\ ctl' = Eval(Top.node.value, Top.env)
  /\ kont' = Append(Pop, [Top EXCEPT !.f = "SetattrValue", !.v = ctl.val])
  /\ UNCHANGED <<pid, envs, funs, out>>

\* setattr(obj, attr, v): only a LoxFunction object has attribute storage
SetattrValue ==
  /\ Returning("SetattrValue")
  /\ LET v == auto_convert(Top.node.attr, ctl.val)
     IN IF Top.v.t = "fun"
        THEN /\ funs' = [funs EXCEPT ![Top.v.n].attrs =
                           ScopePut(@, NameKey(Top.node.attr), v)]
             /\ ctl' = Value(v)
        ELSE /\ funs' = funs
             /\ ctl' = Raise(AttributeError(Top.node.attr))
  /\ kont' = Pop
  /\ UNCHANGED <<pid, envs, out>>

\* --------------------------------------------------- Print.eval ast.py:224
PrintEval ==
  /\ Evaluating("Print")
  /\ ctl' = Eval(ctl.node.expr, ctl.env)
  /\ kont' = Append(kont, Frame("PrintValue", ctl.node, ctl.env, 0, <<>>, Nil))
  /\ UNCHANGED <<pid, envs, funs, out>>

PrintValue ==
  /\ Returning("PrintValue")
  /\ out' = Append(out, lox_str(ctl.val))
  /\ ctl' = Value(Nil)
  /\ kont' = Pop
  /\ UNCHANGED <<pid, envs, funs>>

\* -------------------------------------------------- Return.eval ast.py:235
ReturnEval ==
  /\ Evaluating("Return")
  /\ IF ctl.node.value.kind = "None"
     THEN ctl' = Raise(LoxReturn(Nil)) /\ kont' = kont
     ELSE /\ ctl' = Eval(ctl.node.value, ctl.env)
          /\ kont' = Append(kont,
                       Frame("ReturnValue", ctl.node, ctl.env, 0, <<>>, Nil))
  /\ UNCHANGED <<pid, envs, funs, out>>

ReturnValue ==
  /\ Returning("ReturnValue")
  /\ ctl' = Raise(LoxReturn(ctl.val))
  /\ kont' = Pop
  /\ UNCHANGED <<pid, envs, funs, out>>

\* -------------------------------------------------- VarDef.eval ast.py:254
VarDefEval ==
  /\ Evaluating("VarDef")
  /\ IF ctl.node.value.kind = "None"
     THEN /\ envs' = Ctx_var_def(envs, ctl.env, NameKey(ctl.node.name),
                                 auto_convert(ctl.node.name, Nil))
          /\ ctl' = Value(Nil)
          /\ kont' = kont
     ELSE /\ envs' = envs
          /\ ctl' = Eval(ctl.node.value, ctl.env)
          /\ kont' = Append(kont,
                       Frame("VarDefValue", ctl.node, ctl.env, 0, <<>>, Nil))
  /\ UNCHANGED <<pid, funs, out>>

VarDefValue ==
  /\ Returning("VarDefValue")
  /\ envs' = Ctx_var_def(envs, Top.env, NameKey(Top.node.name),
                         auto_convert(Top.node.name, ctl.val))
  /\ ctl' = Value(Nil)
  /\ kont' = Pop
  /\ UNCHANGED <<pid, funs, out>>

\* ------------------------------------------------------ If.eval ast.py:269
IfEval ==
  /\ Evaluating("If")
  /\ ctl' = Eval(ctl.node.cond, ctl.env)
  /\ kont' = Append(kont, Frame("IfCond", ctl.node, ctl.env, 0, <<>>, Nil))
  /\ UNCHANGED <<pid, envs, funs, out>>

IfCond ==
  /\ Returning("IfCond")
  /\ ctl' = IF is_truthy(ctl.val) THEN Eval(Top.node.then_branch, Top.env)
            ELSE IF Top.node.else_branch.kind # "None"
            THEN Eval(Top.node.else_branch, Top.env)
            ELSE Value(Nil)
  /\ kont' = Pop
  /\ UNCHANGED <<pid, envs, funs, out>>

\* --------------------------------------------------- While.eval ast.py:282
WhileEval ==
  /\ Evaluating("While")
  /\ ctl' = Eval(ctl.node.expr, ctl.env)
  /\ kont' = Append(kont, Frame("WhileCond", ctl.node, ctl.env, 0, <<>>, Nil))
  /\ UNCHANGED <<pid, envs, funs, out>>

WhileCond ==
  /\ Returning("WhileCond")
  /\ IF is_truthy(ctl.val)
     THEN /\ ctl' = Eval(Top.node.stmt, Top.env)
          /\ kont' = Append(Pop, [Top EXCEPT !.f = "WhileBody"])
     ELSE ctl' = Value(Nil) /\ kont' = Pop
  /\ UNCHANGED <<pid, envs, funs, out>>

WhileBody ==
  /\ Returning("WhileBody")
  /\ ctl' = Eval(Top.node.expr, Top.env)
  /\ kont' = Append(Pop, [Top EXCEPT !.f = "WhileCond"])
  /\ UNCHANGED <<pid, envs, funs, out>>

\* --------------------------------------------- DoWhileStmt.eval ast.py:74
\* the mutant of DoWhileEval that checks the condition before the first run
DoWhileEvalChecksFirst ==
  /\ Evaluating("DoWhileStmt")
  /\ ctl' = Eval(ctl.node.condition, ctl.env)
  /\ kont' = Append(kont, Frame("DoWhileCond", ctl.node, ctl.env, 0, <<>>, Nil))
  /\ UNCHANGED <<pid, envs, funs, out>>

DoWhileEval ==
  /\ Evaluating("DoWhileStmt")
  /\ ctl' = Eval(ctl.node.body, ctl.env)
  /\ kont' = Append(kont, Frame("DoWhileBody", ctl.node, ctl.env, 0, <<>>, Nil))
  /\ UNCHANGED <<pid, envs, funs, out>>

DoWhileBody ==
  /\ Returning("DoWhileBody")
  /\ ctl' = Eval(Top.node.condition, Top.env)
  /\ kont' = Append(Pop, [Top EXCEPT !.f = "DoWhileCond"])
  /\ UNCHANGED <<pid, envs, funs, out>>

DoWhileCond ==
  /\ Returning("DoWhileCond")
  /\ IF ~is_truthy(ctl.val)
     THEN ctl' = Value(Nil) /\ kont' = Pop
     ELSE /\ ctl' = Eval(Top.node.body, Top.env)
          /\ kont' = Append(Pop, [Top EXCEPT !.f = "DoWhileBody"])
  /\ UNCHANGED <<pid, envs, funs, out>>

\* ------------------------------------------------ Function.eval ast.py:314
LoxFunction(name, params, body, closure) ==
  [name |-> name, params |-> params, body |-> body, closure |-> closure,
   attrs |-> <<>>]

\* the mutant of FunctionEval that captures a copy of the defining Ctx
FunctionEvalCopies ==
  /\ Evaluating("Function")
  /\ funs' = Append(funs, LoxFunction(ctl.node.name, ctl.node.params,
                                      ctl.node.body, Len(envs) + 1))
  /\ envs' = Append(Ctx_var_def(envs, ctl.env, NameKey(ctl.node.name),
                                FunV(Len(funs) + 1)),
                    envs[ctl.env])
  /\ ctl' = Value(Nil)
  /\ UNCHANGED <<pid, kont, out>>

FunctionEval ==
  /\ Evaluating("Function")
  /\ funs' = Append(funs, LoxFunction(ctl.node.name, ctl.node.params,
                                      ctl.node.body, ctl.env))
  /\ envs' = Ctx_var_def(envs, ctl.env, NameKey(ctl.node.name),
                         FunV(Len(funs) + 1))
  /\ ctl' = Value(Nil)
  /\ UNCHANGED <<pid, kont, out>>

\* ----------------------------------------------------------- specification
Next ==
  \/ ProgramEval \/ ProgramNext \/ BlockEval \/ BlockNext
  \/ LiteralEval \/ VarEval
  \/ BinOpEval \/ BinOpLeft \/ BinOpRight
  \/ AndEval \/ AndLeft \/ OrEval \/ OrLeft
  \/ UnaryOpEval \/ UnaryOpValue
  \/ CallEval \/ CallObj \/ CallArg \/ CallBodyDone \/ CallBodyReturn
  \/ Unwind \/ Escape
  \/ AssignEval \/ AssignValue
  \/ SetattrEval \/ SetattrObj \/ SetattrValue
  \/ PrintEval \/ PrintValue
  \/ ReturnEval \/ ReturnValue
  \/ VarDefEval \/ VarDefValue
  \/ IfEval \/ IfCond
  \/ WhileEval \/ WhileCond \/ WhileBody
  \/ DoWhileEval \/ DoWhileBody \/ DoWhileCond
  \/ FunctionEval

Spec == Init /\ [][Next]_vars

\* ------------------------------------------------------------------ claims
Halted == ctl.mode \in {"done", "uncaught"}

\* the value bound to a name in the root environment
RootVal(name) == ScopeGet(envs[1].scope, NameKey(name))

RootHas(name) == ScopeHas(envs[1].scope, NameKey(name))

Txt_body == <<"b", "o", "d", "y">>
Txt_dead == <<"d", "e", "a", "d">>
Txt_after == <<"a", "f", "t", "e", "r">>
Txt_end == <<"e", "n", "d">>
Txt_nil == <<"n", "i", "l">>
Txt_side == <<"s", "i", "d", "e">>

\* C1: a call with as many arguments as parameters binds every parameter name
\* to its argument in the call's environment: when the body starts, a lookup
\* of each parameter name from the call environment finds it there with the
\* argument's value, and the binding step raises nothing.
C1_ParametersBound ==
  /\ ~(ctl.mode = "raise" /\ ctl.exc = UnhashableError)
  /\ (ctl.mode = "eval" /\ Len(kont) > 0 /\ Top.f = "CallBody")
       => \A j \in 1..Len(funs[Top.i].params) :
            /\ Ctx_find(envs, Top.env, NameKey(funs[Top.i].params[j].name))
                 = Top.env
            /\ Ctx_getitem(envs, Top.env, NameKey(funs[Top.i].params[j].name))
                 = Top.vals[j]

\* the environment in which function object fn was declared: the one whose
\* scope binds the function's name to that object
IsDeclaringEnv(e, fn) ==
  /\ ScopeHas(envs[e].scope, NameKey(funs[fn].name))
  /\ ScopeGet(envs[e].scope, NameKey(funs[fn].name)) = FunV(fn)

\* C2: scoping is lexical: the parent of every call's environment is the
\* environment in which the called function was declared, and a free name of
\* the function resolves to the binding visible at the declaration ("decl"),
\* not to the caller's local one ("caller") nor to another outer one.
C2_LexicalScoping ==
  /\ \A k \in 1..Len(kont) :
       kont[k].f = "CallBody"
         => IsDeclaringEnv(envs[kont[k].env].parent, kont[k].i)
  /\ (pid.fam = "lexical" /\ Halted)
       => ctl.mode = "done" /\ out = <<(<<"d", "e", "c", "l">>)>>

C2_Witness ==
  /\ pid.fam = "lexical" /\ pid.a = 1
  /\ ctl.mode = "eval" /\ ctl.node.kind = "Var"
  /\ Len(kont) > 2 /\ \E k \in 1..Len(kont) : kont[k].f = "CallBody" /\ kont[k].i = 1
  /\ Ctx_find(envs, ctl.env, NameKey(<<"x">>)) = 2

\* what a "return" program must have written when it ends
ReturnOut(id) ==
  LET v == IF id.b = 1 THEN <<"7">> ELSE Txt_nil
  IN IF id.a = 8 THEN <<(<<"i", "n">>), Txt_nil, Txt_after>>
     ELSE IF id.a = 7 THEN <<(<<"i", "n">>), (<<"g">>), v, Txt_after>>
     ELSE <<(<<"i", "n">>), v, Txt_after>>

\* C3: a Return executed anywhere in a body (directly, in a nested block, an
\* if-branch, a while or do-while loop) ends the call at once with the
\* carried value (nil without expression): no later statement of the body
\* runs, the nearest call consumes the signal and its caller continues; a
\* body that ends without Return makes the call produce nil.
C3_ReturnEndsCall ==
  pid.fam = "return"
    => /\ \A j \in 1..Len(out) : out[j] # Txt_dead
       /\ ctl.mode # "uncaught"
       /\ ctl.mode = "done" => out = ReturnOut(pid)

C3_Witness ==
  /\ pid.fam = "return" /\ pid.a = 4 /\ pid.b = 1
  /\ ctl.mode = "done" /\ out = ReturnOut(pid)

\* C4: the return signal never leaves the evaluator: Program.eval never ends
\* by an uncaught LoxReturn, also when a Return runs outside any call.
C4_ReturnNeverEscapes == ~(ctl.mode = "uncaught" /\ ctl.exc.type = "LoxReturn")

\* the literal values of Lits, by index
LitVal(v) == Lits[v].value

\* names of Names that begin with one of i, j, k, l, m, n
ImplicitNames == 1..7

\* what a store of Lits[v] under Names[n] must leave stored
Stored(n, v) ==
  IF n \in ImplicitNames
  THEN CASE v = 1 -> IntV(3)
         [] v = 2 -> IntV(5)
         [] v = 3 -> IntV(1)
         [] v = 4 -> IntV(0)
         [] v = 7 -> IntV(0)
         [] v = 9 -> IntV(2)
         [] v = 10 -> IntV(42)
         [] OTHER -> LitVal(v)
  ELSE LitVal(v)

\* the line `print` writes for a value Stored(n, v)
StoredText(n, v) ==
  CASE v = 1 -> <<"3">>
    [] v = 2 -> <<"5">>
    [] v = 3 -> IF n \in ImplicitNames THEN <<"1">> ELSE <<"t", "r", "u", "e">>
    [] v = 4 -> IF n \in ImplicitNames THEN <<"0">> ELSE <<"f", "a", "l", "s", "e">>
    [] v = 5 -> <<"a", "b", "c">>
    [] v = 6 -> Txt_nil
    [] v = 7 -> <<"0">>
    [] v = 8 -> <<>>
    [] v = 9 -> IF n \in ImplicitNames THEN <<"2">> ELSE <<"2", ".", "5">>
    [] OTHER -> <<"4", "2">>

\* an assignment is about to be stored and no environment of its chain
\* defines the name
AssignUndefined ==
  /\ Returning("AssignValue")
  /\ \A j \in 1..Len(Chain(envs, Top.env)) :
       ~ScopeHas(envs[Chain(envs, Top.env)[j]].scope, NameKey(Top.node.name))

C5_State ==
  /\ (pid.fam = "undeclared" /\ Halted)
       => /\ ctl.mode = "uncaught"
          /\ ctl.exc = KeyError(Names[pid.b])
          /\ out = <<>>
          /\ \A e \in 1..Len(envs) : pid.a # 4 =>
               ~ScopeHas(envs[e].scope, NameKey(Names[pid.b]))
          /\ ~RootHas(Names[pid.b])
  /\ (pid.fam = "declassign" /\ Halted)
       => /\ ctl.mode = "done"
          /\ RootVal(Names[pid.b]) = Stored(pid.b, pid.c)
          /\ \A j \in 1..Len(out) : out[j] = StoredText(pid.b, pid.c)
          /\ Len(out) = IF pid.a = 1 THEN 1 ELSE 2

C5_Step ==
  AssignUndefined
    => /\ ctl'.mode = "raise"
       /\ ctl'.exc = KeyError(Top.node.name)
       /\ envs' = envs

\* C5: an assignment to a name no environment of the chain defines fails with
\* UndefinedVariable and leaves every environment exactly as it was (no
\* binding is created); a declaration followed by an assignment succeeds and
\* every later lookup of the name yields the assigned, coerced value.
C5_AssignNeedsDeclaration == []C5_State /\ [][C5_Step]_vars

C5_Witness ==
  /\ pid.fam = "undeclared" /\ pid.a = 2
  /\ ctl.mode = "uncaught" /\ ctl.exc = KeyError(Names[pid.b])

\* C6: a closure sees its defining environment by reference: after x is
\* declared as 1, f is declared returning x, and x is reassigned k times (to
\* 2, .., k + 1), f() yields the value x has at the call, k + 1; and the
\* environment a function object holds is the one in which it was declared.
C6_ClosureByReference ==
  /\ \A fn \in 1..Len(funs) : IsDeclaringEnv(funs[fn].closure, fn)
  /\ (pid.fam = "closure" /\ Halted)
       => ctl.mode = "done" /\ out = <<NatToStr(pid.a + 1)>>

C6_Witness ==
  /\ pid.fam = "closure" /\ pid.a >= 1
  /\ ctl.mode = "done" /\ out = <<NatToStr(pid.a + 1)>>

\* C7: a call with a number of arguments other than the number of parameters
\* fails with the arity error carrying both counts, before anything of the
\* body runs (no output, x keeps its value, r is not defined); a call of a
\* number, string, boolean or nil fails with the not-callable error, whose
\* message is not the arity error's.
C7_ArityAndNotCallable ==
  /\ (pid.fam = "call" /\ pid.a # pid.b)
       => /\ out = <<>>
          /\ RootHas(<<"x">>) => RootVal(<<"x">>) = FloatV(0, 1)
          /\ ~RootHas(<<"r">>)
          /\ ctl.mode # "done"
          /\ Halted => /\ ctl.exc.type = "TypeError"
                       /\ ctl.exc.msg = "Expected arguments but got"
                       /\ ctl.exc.expected = pid.a
                       /\ ctl.exc.got = pid.b
  /\ pid.fam = "notcallable"
       => /\ out = <<>>
          /\ ctl.mode # "done"
          /\ Halted => /\ ctl.exc.type = "TypeError"
                       /\ ctl.exc.msg = "nao e uma funcao"
                       /\ ctl.exc.msg # ArityError(0, 0).msg

C7_Witness ==
  /\ pid.fam = "call" /\ pid.a = 0 /\ pid.b = 1
  /\ ctl.mode = "uncaught" /\ ctl.exc = ArityError(0, 1)

\* indices of the literals of Lits that are falsy: false and nil
FalsyLits == {4, 6}

\* C8: `left and right` with a falsy left yields the left value itself and
\* `left or right` with a truthy left yields the left value itself, in both
\* cases without any effect of right (no output, no assignment, no call);
\* otherwise the result is the value of right, evaluated exactly once.
C8_ShortCircuit ==
  (pid.fam = "logic" /\ Halted)
    => /\ ctl.mode = "done"
       /\ IF (pid.a = 0 /\ pid.b \in FalsyLits)
             \/ (pid.a = 1 /\ pid.b \notin FalsyLits)
          THEN /\ RootVal(<<"r">>) = LitVal(pid.b)
               /\ out = <<>>
               /\ RootVal(<<"x">>) = FloatV(0, 1)
               /\ Len(envs) = 1
          ELSE /\ RootVal(<<"r">>) = FloatV(7, 1)
               /\ out = <<Txt_side>>
               /\ RootVal(<<"x">>) = FloatV(9, 1)

C8_Witness ==
  /\ pid.fam = "logic" /\ pid.a = 0 /\ pid.b = 4
  /\ ctl.mode = "done" /\ RootVal(<<"r">>) = BoolV(FALSE) /\ out = <<>>

\* the value a "coerce" program has stored when it ends
CoerceStored ==
  IF pid.a = 3 THEN ScopeGet(funs[1].attrs, NameKey(Names[pid.b]))
  ELSE RootVal(Names[pid.b])

\* C9: under a name beginning with i, j, k, l, m or n, a declaration, an
\* assignment and an attribute assignment store the integer 3 for 3.0, the
\* integer 5 for "5", the integer 1 for true, 0 for false, and "abc"
\* unchanged; under any other name they store the value unchanged.
C9_AutoCoercion ==
  (pid.fam = "coerce" /\ Halted)
    => /\ ctl.mode = "done"
       /\ (pid.b \notin ImplicitNames \/ pid.c \in 1..5)
            => CoerceStored = Stored(pid.b, pid.c)

C9_Witness ==
  /\ pid.fam = "coerce" /\ pid.a = 3 /\ pid.b = 6 /\ pid.c = 3
  /\ ctl.mode = "done" /\ CoerceStored = IntV(1)

\* the lines 0, 1, .., N - 1
Count(N) == [j \in 1..N |-> NatToStr(j - 1)]

RECURSIVE Rounds(_, _)
\* the lines of rounds k, .., N - 1 of the observed loop: c, k, s
Rounds(k, N) ==
  IF k >= N THEN <<>>
  ELSE <<(<<"c">>), NatToStr(k), (<<"s">>)>> \o Rounds(k + 1, N)

\* what a "for" program whose loop runs must have written when it ends
ForOut(id) ==
  CASE id.a = 4 -> <<(<<"z">>)>> \o Rounds(0, id.b) \o <<(<<"c">>), Txt_end>>
    [] id.a = 6 -> Count(id.b) \o <<NatToStr(id.b), Txt_end>>
    [] OTHER -> Count(id.b) \o <<Txt_end>>

RECURSIVE DoRounds(_, _)
\* the lines of rounds k, .., N - 1 of the observed do-while: k, c
DoRounds(k, N) ==
  IF k >= N THEN <<>>
  ELSE <<NatToStr(k), (<<"c">>)>> \o DoRounds(k + 1, N)

\* the lines of the N rounds of the observed while: c, k
WhileRounds(N) ==
  [j \in 1..(2 * N) |-> IF j % 2 = 1 THEN <<"c">> ELSE NatToStr((j \div 2) - 1)]

\* what a "loop" or "dowhile" program must have written when it ends
LoopOut(id) ==
  LET once == IF id.b < 1 THEN 1 ELSE id.b
  IN CASE id.fam = "dowhile" -> Count(IF id.a < 1 THEN 1 ELSE id.a) \o <<Txt_end>>
       [] id.a = 1 -> DoRounds(0, once) \o <<Txt_end>>
       [] id.a = 2 -> WhileRounds(id.b) \o <<(<<"c">>), Txt_end>>
       [] id.a = 3 -> <<(<<"b">>), Txt_end>>
       [] OTHER -> <<Txt_end>>

\* C11: a do-while runs its body once when its condition is falsy at the
\* first check and checks the condition only after each run of the body; a
\* while whose condition is falsy at the first check runs its body zero
\* times, checks the condition before every iteration and exits at the first
\* falsy result.
C11_LoopConditionOrder ==
  (pid.fam \in {"loop", "dowhile"} /\ Halted)
    => /\ ctl.mode = "done"
       /\ out = LoopOut(pid)

C11_Witness ==
  /\ pid.fam = "loop" /\ pid.a = 3 /\ pid.b = 0
  /\ ctl.mode = "done" /\ out = <<(<<"b">>), Txt_end>>

\* the operands of an "arith" program and the whole number x o y
ArithX == pid.c \div (MaxNum + 1)

ArithY == pid.c % (MaxNum + 1)

ArithResult ==
  CASE pid.b = 1 -> ArithX + ArithY
    [] pid.b = 2 -> ArithX - ArithY
    [] pid.b = 3 -> ArithX * ArithY
    [] OTHER -> ArithX \div ArithY

\* C12: for whole-valued operands, held as literals or as integers coerced
\* by a store under an i..n name, and every arithmetic operator (+, -, *, /)
\* with a whole-valued result, the rendering of the result has no fractional
\* suffix (render(2 + 2) is "4", render(6 / 3) is "2").
C12_WholeRendering ==
  (pid.fam = "arith" /\ Halted)
    => IF pid.b = 4 /\ ArithY = 0
       THEN ctl.mode = "uncaught" /\ ctl.exc.type = "ZeroDivisionError"
       ELSE /\ ctl.mode = "done"
            /\ out = <<IntToStr(ArithResult)>>
            /\ \A j \in 1..Len(out[1]) : out[1][j] # "."

C12_Witness ==
  /\ pid.fam = "arith" /\ pid.a = 3 /\ pid.b = 4 /\ ArithX = 6 /\ ArithY = 3
  /\ ctl.mode = "done" /\ out = <<(<<"2">>)>>

\* what an "abort" program has written when its statement fails
AbortOut(where) ==
  CASE where = 1 -> <<(<<"b">>)>>
    [] where = 2 -> <<(<<"b">>), (<<"k">>)>>
    [] where = 3 -> <<(<<"b">>), (<<"0">>)>>
    [] where = 4 -> <<(<<"b">>), (<<"g">>)>>
    [] OTHER -> <<(<<"b">>), (<<"f">>), (<<"g">>)>>

\* the error of the failing statement of an "abort" program
AbortError(kind) ==
  CASE kind = 1 -> NameError(<<"u">>)
    [] kind = 2 -> NotCallable
    [] OTHER -> ArityError(0, 1)

\* an evaluation error is propagating
Failing == ctl.mode = "raise" /\ ctl.exc.type # "LoxReturn"

C13_State ==
  /\ (pid.fam = "abort" /\ Halted)
       => /\ ctl = Uncaught(AbortError(pid.a))
          /\ out = AbortOut(pid.b)
  /\ (pid.fam = "abort" /\ Failing) => out = AbortOut(pid.b)

C13_Step ==
  Failing => /\ ctl'.mode \in {"raise", "uncaught"}
             /\ ctl'.exc = ctl.exc
             /\ Len(kont') <= Len(kont)
             /\ UNCHANGED <<out, envs, funs>>

\* C13: every evaluation error (undefined variable, not callable, arity
\* mismatch) aborts the whole program: once a statement fails, no later
\* statement of the program, of an enclosing block or loop or of an enclosing
\* function body is evaluated, so the output is exactly what was written
\* before the failure and nothing is written afterwards.
C13_ErrorsAbort == []C13_State /\ [][C13_Step]_vars

C13_Witness ==
  /\ pid.fam = "abort" /\ pid.a = 3 /\ pid.b = 5
  /\ ctl = Uncaught(ArityError(0, 1))
  /\ out = <<(<<"b">>), (<<"f">>), (<<"g">>)>>

\* the bindings of x that environment e holds
BindingsOfX(e) ==
  SelectSeq(envs[e].scope, LAMBDA b : b.key = NameKey(<<"x">>))

\* a scope's only binding of x, holding the number v
OneX(v) == <<[key |-> NameKey(<<"x">>), val |-> FloatV(v, 1)]>>

\* the innermost of the three levels that declares x
Innermost(mask) ==
  CHOOSE L \in 1..3 :
    Declares(mask, L) /\ \A M \in (L + 1)..3 : ~Declares(mask, M)

\* C14: assignment writes to the nearest enclosing environment that already
\* defines the name and to no other: with x defined at one or more levels of
\* a chain of nested environments, x = 9 evaluated in the innermost one
\* overwrites the binding of the innermost level that defines x, adds no
\* binding to a level that did not define it, and leaves the bindings of x at
\* outer levels unchanged.
C14_AssignWritesNearest ==
  (pid.fam = "nearest" /\ Halted)
    => /\ ctl.mode = "done"
       /\ IF pid.a = 8
          THEN /\ BindingsOfX(1) = OneX(9)
               /\ BindingsOfX(2) = OneX(2)
               /\ \A e \in 3..Len(envs) : BindingsOfX(e) = <<>>
          ELSE /\ Len(envs) = 3
               /\ \A L \in 1..3 :
                    BindingsOfX(L) =
                      IF ~Declares(pid.a, L) THEN <<>>
                      ELSE IF L = Innermost(pid.a) THEN OneX(9)
                      ELSE OneX(L)

C14_Witness ==
  /\ pid.fam = "nearest" /\ pid.a = 3 /\ ctl.mode = "done"
  /\ BindingsOfX(1) = OneX(1) /\ BindingsOfX(2) = OneX(9)
  /\ BindingsOfX(3) = <<>>

\* a scope's only binding, of name to the number v
One(name, v) == <<[key |-> NameKey(name), val |-> FloatV(v, 1)]>>

\* the environment of the innermost block (or the program) being evaluated
\* below frame k of the stack
RECURSIVE BlockEnvBelow(_)
BlockEnvBelow(k) ==
  IF k = 0 THEN 1
  ELSE IF kont[k].f = "Block" THEN kont[k].env
  ELSE BlockEnvBelow(k - 1)

C15_State ==
  (pid.fam = "scope" /\ Halted)
    => CASE pid.a = 1 ->
              /\ ctl = Uncaught(NameError(<<"y">>))
              /\ out = <<(<<"1">>)>>
              /\ envs[1].scope = <<>> /\ envs[2].scope = One(<<"y">>, 1)
         [] pid.a = 2 ->
              /\ ctl.mode = "done" /\ out = <<(<<"2">>), (<<"1">>)>>
              /\ envs[1].scope = One(<<"x">>, 1)
              /\ envs[2].scope = One(<<"x">>, 2)
         [] pid.a = 3 ->
              /\ ctl.mode = "done" /\ out = <<(<<"2">>)>>
              /\ envs[1].scope = One(<<"x">>, 2)
         [] pid.a = 4 ->
              /\ ctl.mode = "done" /\ out = <<(<<"2">>)>>
              /\ envs[1].scope = <<>> /\ envs[2].scope = One(<<"y">>, 2)
         [] pid.a = 5 ->
              /\ ctl.mode = "done" /\ out = <<(<<"3">>), (<<"1">>)>>
              /\ envs[1].scope = One(<<"x">>, 1)
              /\ envs[2].scope = One(<<"x">>, 3)
         [] OTHER ->
              /\ ctl.mode = "done" /\ out = <<(<<"2">>), (<<"1">>)>>
              /\ envs[1].scope = One(<<"x">>, 1)
              /\ envs[2].scope = One(<<"x">>, 2)

\* a declaration changes the environment of the innermost block it is in
\* and no other, and every block being evaluated has an environment of its own
C15_Step ==
  /\ Returning("VarDefValue")
       => /\ Top.env = BlockEnvBelow(Len(kont))
          /\ Len(envs') = Len(envs)
          /\ \A e \in 1..Len(envs) : e # Top.env => envs'[e] = envs[e]
  /\ Evaluating("Block")
       => /\ Len(envs') = Len(envs) + 1
          /\ envs'[Len(envs')] = NewCtx(ctl.env)
          /\ ctl'.mode = "eval" => ctl'.env = Len(envs')

\* C15: a declaration evaluated directly inside a block defines the name in
\* that block's own child environment only: after the block, a name first
\* declared inside it is undefined outside (a lookup fails), a shadowed outer
\* binding holds the value it had before the block, and declaring a name
\* twice in one environment leaves a single binding with the later value.
C15_BlockScoping == []C15_State /\ [][C15_Step]_vars

C15_Witness ==
  /\ pid.fam = "scope" /\ pid.a = 1
  /\ ctl = Uncaught(NameError(<<"y">>)) /\ out = <<(<<"1">>)>>

\* a value that a store under an implicit-integer name must have coerced
Uncoerced(value) ==
  \/ value.t \in {"float", "bool"}
  \/ value.t = "str" /\ IsDigit(value.s)

\* the bindings that operations other than a call's parameter binding wrote
\* are keyed by the name itself
WrittenByName(b) == b.key.obj = "str"

\* every binding written by a declaration, a re-declaration or an assignment
\* under an implicit-integer name is coerced
DeclaredBindingsCoerced ==
  \A e \in 1..Len(envs) : \A j \in 1..Len(envs[e].scope) :
    LET b == envs[e].scope[j]
    IN (WrittenByName(b) /\ is_implicit_int(b.key.name)) => ~Uncoerced(b.val)

\* C16: the auto-coercion runs on every store to an implicit-integer name: no
\* binding in any environment whose name begins with one of i, j, k, l, m, n
\* holds a floating number, a boolean or a digit-only string, whichever
\* operation wrote it (declaration, assignment, re-declaration, or the
\* binding of a call's parameter).
C16_EveryStoreCoerces ==
  \A e \in 1..Len(envs) : \A j \in 1..Len(envs[e].scope) :
    LET b == envs[e].scope[j]
    IN is_implicit_int(b.key.name) => ~Uncoerced(b.val)

\* frame k is a call whose body block is being evaluated in frame k + 1
BodyRunning(k) ==
  k < Len(kont) /\ kont[k].f = "CallBody" /\ kont[k + 1].f = "Block"

\* C17: a function body is evaluated in the call environment itself, without
\* a further nested environment: the environment in which the top-level
\* statements of the body run is the one holding the parameter bindings, its
\* direct parent is the function's closure environment, and a variable
\* declared at the top level of the body is defined in the call environment.
C17_BodyInCallEnv ==
  /\ \A k \in 1..Len(kont) :
       BodyRunning(k)
         => /\ kont[k + 1].env = kont[k].env
            /\ envs[kont[k + 1].env].parent = funs[kont[k].i].closure
  /\ (pid.fam = "bodyenv" /\ Halted)
       => ScopeHas(envs[2].scope, NameKey(<<"y">>))

\* the rendering of 1 <o> 2
OneOpTwo(o) ==
  CASE o = 1 -> <<"3">>
    [] o = 2 -> <<"-", "1">>
    [] o = 3 -> <<"2">>
    [] o = 4 -> <<"0">>
    [] o \in {5, 7, 10} -> <<"t", "r", "u", "e">>
    [] OTHER -> <<"f", "a", "l", "s", "e">>

\* C18: evaluation order is fixed: a binary operation evaluates its left
\* operand completely before its right operand, and a call evaluates the
\* callee expression first and then the arguments left to right, each exactly
\* once, so the side effects of operands and arguments (print, assignment)
\* happen in that order.
C18_EvaluationOrder ==
  (pid.fam = "order" /\ Halted)
    => CASE pid.a = 1 ->
              /\ ctl.mode = "done"
              /\ out = <<(<<"a">>), (<<"b">>), OneOpTwo(pid.b)>>
         [] pid.a = 2 ->
              /\ ctl = Uncaught(ArityError(0, 2))
              /\ out = <<(<<"h">>), (<<"a">>), (<<"b">>)>>
         [] pid.a = 3 ->
              \/ /\ ctl = Uncaught(UnhashableError)
                 /\ out = <<(<<"h">>), (<<"a">>), (<<"b">>)>>
              \/ /\ ctl.mode = "done"
                 /\ out = <<(<<"h">>), (<<"a">>), (<<"b">>), (<<"t">>)>>
         [] pid.a = 4 ->
              /\ ctl.mode = "done" /\ out = <<(<<"1", "1">>)>>
              /\ lox_str(RootVal(<<"x">>)) = <<"1", "0">>
         [] OTHER ->
              /\ ctl = Uncaught(ArityError(0, 2))
              /\ lox_str(RootVal(<<"x">>)) = <<"1", "0">>

C18_Witness ==
  /\ pid.fam = "order" /\ pid.a = 2
  /\ ctl = Uncaught(ArityError(0, 2))
  /\ out = <<(<<"h">>), (<<"a">>), (<<"b">>)>>

\* the error of the call of a "failcall" program
FailCallError(callee) ==
  CASE callee = 5 -> ArityError(0, 2)
    [] callee = 6 -> ArityError(1, 2)
    [] OTHER -> NotCallable

\* the error a call itself raises: not callable, or the wrong argument count
CallError ==
  /\ ctl.mode = "raise"
  /\ ctl.exc.type = "TypeError"
  /\ ctl.exc.msg \in {NotCallable.msg, ArityError(0, 0).msg}

\* C19: a failing call still evaluates all of its arguments first: when the
\* callee is not callable, or is a function whose parameter count differs
\* from the argument count, every argument expression is evaluated, with its
\* output and assignments, before the error is raised.
C19_ArgumentsBeforeCallError ==
  /\ (pid.fam = "failcall" /\ CallError)
       => /\ ctl.exc = FailCallError(pid.a)
          /\ IF pid.b = 1
             THEN out = <<(<<"a">>), (<<"b">>)>>
             ELSE out = <<>> /\ lox_str(RootVal(<<"x">>)) = <<"1", "0">>
  /\ (pid.fam = "failcall" /\ Halted) => ctl = Uncaught(FailCallError(pid.a))

C19_Witness ==
  /\ pid.fam = "failcall" /\ pid.a = 1 /\ pid.b = 1
  /\ ctl = Uncaught(NotCallable)
  /\ out = <<(<<"a">>), (<<"b">>)>>

\* the stack positions of the calls in progress, outermost first
Activations == SelectSeq([k \in 1..Len(kont) |-> k],
                         LAMBDA k : kont[k].f = "CallBody")

\* the parameter bindings the call of frame k made
ParamBindings(k) ==
  [i \in 1..Len(kont[k].vals) |->
     [key |-> ParamKey(funs[kont[k].i].params[i]), val |-> kont[k].vals[i]]]

\* the lines y of one outermost call of a "fresh" program: depth - 1, .., 0
RECURSIVE Countdown(_)
Countdown(depth) ==
  IF depth = 0 THEN <<>> ELSE <<NatToStr(depth - 1)>> \o Countdown(depth - 1)

\* C20: every call gets a fresh environment, so activations of one function
\* do not interfere: for a function that calls itself or is called several
\* times, the parameter and local bindings of an outer activation hold the
\* same values after an inner call returns as before it, and the closure
\* environment gains no binding for a parameter name.
C20_FreshEnvPerCall ==
  pid.fam = "fresh"
    => /\ \A a, b \in 1..Len(Activations) :
            a # b => kont[Activations[a]].env # kont[Activations[b]].env
       /\ \A a \in 1..Len(Activations) :
            LET k == Activations[a]
            IN /\ kont[k].env # funs[kont[k].i].closure
               /\ envs[kont[k].env].scope = ParamBindings(k)
               /\ BodyRunning(k)
                    => LET locals == envs[kont[k + 1].env].scope
                       IN \A j \in 1..Len(locals) :
                            /\ locals[j].key = NameKey(<<"y">>)
                            /\ lox_str(locals[j].val) = NatToStr(a - 1)
       /\ \A j \in 1..Len(envs[1].scope) :
            envs[1].scope[j].key.name \in {<<"d">>, <<"f">>}
       /\ ctl.mode = "done"
            => LET depth == IF pid.b < 1 THEN 1 ELSE pid.b
               IN out = Countdown(depth) \o Countdown(depth)

C20_Witness ==
  /\ pid.fam = "fresh" /\ pid.a = 1 /\ pid.b = 3
  /\ ctl.mode = "done"
  /\ out = Countdown(3) \o Countdown(3)

====
